---- MODULE Spec2Model ----
(***************************************************************************)
(* Verification model of the opencode worker: the command validator        *)
(* (src/src/security/allowlist.ts), the session lifecycle manager and the  *)
(* job entry points (src/src/session/lifecycle.ts,                         *)
(* src/src/session/streaming.ts, src/test-remote.ts).                      *)
(*                                                                         *)
(* Strings are sequences of one-character strings, so that trim, split and *)
(* the regular expressions of the validator are computed character by      *)
(* character as the JavaScript engine computes them.                       *)
(***************************************************************************)
EXTENDS Integers, Sequences, FiniteSets, TLC

\* the grave accent character, which a TLA+ string cannot hold
BackTick == "grave"

(***************************************************************************)
(* Regular expressions (the subset of the ECMAScript syntax that the       *)
(* patterns of allowlist.ts use).                                          *)
(***************************************************************************)

\* \s of ECMAScript, restricted to the characters of the model's alphabet
Whitespace == {" ", "\t", "\n"}

\* line terminators: the characters `.` does not match
LineTerminators == {"\n", "\r"}

\* \d
Digits == {"0", "1", "2", "3", "4", "5", "6", "7", "8", "9"}

Str(cs) == [t |-> "str", cs |-> cs]
Cls(S) == [t |-> "cls", S |-> S]
NotCls(S) == [t |-> "ncls", S |-> S]
Cat(rs) == [t |-> "cat", rs |-> rs]
Alt(rs) == [t |-> "alt", rs |-> rs]
Star(r) == [t |-> "star", r |-> r]
Plus(r) == [t |-> "plus", r |-> r]
Opt(r) == [t |-> "opt", r |-> r]
Bol == [t |-> "bol"]
Eol == [t |-> "eol"]

ReS == Cls(Whitespace)
ReNotS == NotCls(Whitespace)
ReD == Cls(Digits)
ReAny == NotCls(LineTerminators)

RECURSIVE Ends(_, _, _)
RECURSIVE EndsCat(_, _, _, _)
RECURSIVE EndsStar(_, _, _)

\* the positions q such that re matches s[p..q-1] for some start p in P
Ends(re, s, P) ==
  CASE re.t = "str" ->
         {p + Len(re.cs) : p \in {q \in P : /\ q + Len(re.cs) - 1 <= Len(s)
                                            /\ SubSeq(s, q, q + Len(re.cs) - 1) = re.cs}}
    [] re.t = "cls" -> {p + 1 : p \in {q \in P : q <= Len(s) /\ s[q] \in re.S}}
    [] re.t = "ncls" -> {p + 1 : p \in {q \in P : q <= Len(s) /\ s[q] \notin re.S}}
    [] re.t = "bol" -> P \cap {1}
    [] re.t = "eol" -> P \cap {Len(s) + 1}
    [] re.t = "cat" -> EndsCat(re.rs, 1, s, P)
    [] re.t = "alt" -> UNION {Ends(re.rs[i], s, P) : i \in 1..Len(re.rs)}
    [] re.t = "opt" -> P \cup Ends(re.r, s, P)
    [] re.t = "star" -> EndsStar(re.r, s, P)
    [] re.t = "plus" -> EndsStar(re.r, s, Ends(re.r, s, P))

EndsCat(rs, i, s, P) ==
  IF i > Len(rs) \/ P = {} THEN P ELSE EndsCat(rs, i + 1, s, Ends(rs[i], s, P))

EndsStar(r, s, P) ==
  LET Q == P \cup Ends(r, s, P)
  IN IF Q = P THEN P ELSE EndsStar(r, s, Q)

\* RegExp.prototype.test for a pattern without the g/y flags: a match may
\* start at any position of the string
Test(re, s) == Ends(re, s, 1..(Len(s) + 1)) # {}

(***************************************************************************)
(* String helpers                                                          *)
(***************************************************************************)

RECURSIVE TrimStart(_)
TrimStart(s) ==
  IF s # <<>> /\ Head(s) \in Whitespace THEN TrimStart(Tail(s)) ELSE s

RECURSIVE TrimEnd(_)
TrimEnd(s) ==
  IF s # <<>> /\ s[Len(s)] \in Whitespace THEN TrimEnd(SubSeq(s, 1, Len(s) - 1)) ELSE s

\* String.prototype.trim
Trim(s) == TrimEnd(TrimStart(s))

RECURSIVE SplitWs(_, _, _)
\* String.prototype.split(/\s+/): the pieces between maximal runs of whitespace
SplitWs(s, cur, inWs) ==
  IF s = <<>> THEN <<cur>>
  ELSE IF Head(s) \in Whitespace
       THEN IF inWs THEN SplitWs(Tail(s), cur, TRUE)
            ELSE <<cur>> \o SplitWs(Tail(s), <<>>, TRUE)
       ELSE SplitWs(Tail(s), Append(cur, Head(s)), FALSE)

Split(s) == SplitWs(s, <<>>, FALSE)

(***************************************************************************)
(* src/src/security/allowlist.ts                                           *)
(***************************************************************************)

ALLOWED_COMMANDS ==
  {
    <<"n", "p", "x">>, <<"n", "o", "d", "e">>, <<"n", "p", "m">>, <<"b", "u", "n">>,
    <<"p", "n", "p", "m">>, <<"y", "a", "r", "n">>, <<"g", "i", "t">>,
    <<"b", "a", "s", "h">>, <<"s", "h">>, <<"c", "a", "t">>, <<"l", "s">>,
    <<"m", "k", "d", "i", "r">>, <<"r", "m">>, <<"c", "p">>, <<"m", "v">>,
    <<"c", "h", "m", "o", "d">>, <<"c", "h", "o", "w", "n">>, <<"f", "i", "n", "d">>,
    <<"g", "r", "e", "p">>, <<"s", "e", "d">>, <<"a", "w", "k">>, <<"j", "q">>,
    <<"c", "u", "r", "l">>, <<"w", "g", "e", "t">>, <<"t", "a", "r">>,
    <<"u", "n", "z", "i", "p">>, <<"z", "i", "p">>, <<"e", "c", "h", "o">>,
    <<"p", "r", "i", "n", "t", "f">>, <<"h", "e", "a", "d">>, <<"t", "a", "i", "l">>,
    <<"w", "c">>, <<"s", "o", "r", "t">>, <<"u", "n", "i", "q">>, <<"c", "u", "t">>,
    <<"t", "r">>, <<"d", "i", "f", "f">>, <<"p", "a", "t", "c", "h">>,
    <<"m", "a", "k", "e">>, <<"c", "m", "a", "k", "e">>, <<"c", "a", "r", "g", "o">>,
    <<"r", "u", "s", "t", "c">>, <<"g", "o">>, <<"p", "y", "t", "h", "o", "n">>,
    <<"p", "y", "t", "h", "o", "n", "3">>, <<"p", "i", "p">>, <<"p", "i", "p", "3">>,
    <<"u", "v">>, <<"p", "o", "e", "t", "r", "y">>,
    <<"o", "p", "e", "n", "c", "o", "d", "e">>, <<"t", "y", "p", "e">>,
    <<"w", "h", "i", "c", "h">>, <<"w", "h", "o", "a", "m", "i">>, <<"i", "d">>,
    <<"e", "n", "v">>, <<"p", "r", "i", "n", "t", "e", "n", "v">>,
    <<"d", "a", "t", "e">>, <<"s", "l", "e", "e", "p">>,
    <<"t", "i", "m", "e", "o", "u", "t">>, <<"p", "w", "d">>,
    <<"h", "o", "s", "t", "n", "a", "m", "e">>, <<"u", "n", "a", "m", "e">>
  }

SubCmds1 == Alt(<<Str(<<"r", "u", "n">>), Str(<<"i", "n", "s", "t", "a", "l", "l">>), Str(<<"t", "e", "s", "t">>), Str(<<"b", "u", "i", "l", "d">>),
                  Str(<<"s", "t", "a", "r", "t">>), Str(<<"d", "e", "v">>)>>)

ALLOWED_PATTERNS ==
  << Cat(<<Bol, Str(<<"n", "p", "x">>), Plus(ReS), Plus(ReNotS)>>),
     Cat(<<Bol, Str(<<"n", "o", "d", "e">>), Plus(ReS), Plus(ReNotS)>>),
     Cat(<<Bol, Str(<<"n", "p", "m">>), Plus(ReS), SubCmds1, Star(ReS)>>),
     Cat(<<Bol, Str(<<"b", "u", "n">>), Plus(ReS), SubCmds1, Star(ReS)>>),
     Cat(<<Bol, Str(<<"p", "n", "p", "m">>), Plus(ReS), SubCmds1, Star(ReS)>>),
     Cat(<<Bol, Str(<<"g", "i", "t">>), Plus(ReS),
           Alt(<<Str(<<"c", "l", "o", "n", "e">>), Str(<<"p", "u", "l", "l">>), Str(<<"p", "u", "s", "h">>), Str(<<"c", "h", "e", "c", "k", "o", "u", "t">>),
                 Cat(<<Str(<<"c", "h", "e", "c", "k", "o", "u", "t">>), Plus(ReS), Str(<<"-", "b">>)>>), Str(<<"a", "d", "d">>),
                 Str(<<"c", "o", "m", "m", "i", "t">>), Str(<<"s", "t", "a", "t", "u", "s">>), Str(<<"l", "o", "g">>), Str(<<"b", "r", "a", "n", "c", "h">>),
                 Str(<<"m", "e", "r", "g", "e">>), Str(<<"f", "e", "t", "c", "h">>), Str(<<"r", "e", "m", "o", "t", "e">>)>>),
           Star(ReS)>>),
     Cat(<<Bol, Str(<<"c", "a", "r", "g", "o">>), Plus(ReS),
           Alt(<<Str(<<"b", "u", "i", "l", "d">>), Str(<<"t", "e", "s", "t">>), Str(<<"r", "u", "n">>), Str(<<"c", "h", "e", "c", "k">>),
                 Str(<<"d", "o", "c">>), Str(<<"c", "l", "i", "p", "p", "y">>), Str(<<"f", "m", "t">>)>>),
           Star(ReS)>>),
     Cat(<<Bol, Str(<<"g", "o">>), Plus(ReS),
           Alt(<<Str(<<"r", "u", "n">>), Str(<<"b", "u", "i", "l", "d">>), Str(<<"t", "e", "s", "t">>), Str(<<"g", "e", "t">>),
                 Str(<<"m", "o", "d">>), Str(<<"v", "e", "t">>), Str(<<"f", "m", "t">>)>>),
           Star(ReS)>>),
     Cat(<<Bol, Str(<<"p", "y", "t", "h", "o", "n">>), Opt(Str(<<"3">>)), Plus(ReS), Star(ReAny), Str(<<".", "p", "y">>)>>),
     Cat(<<Bol, Str(<<"m", "a", "k", "e">>), Plus(ReS)>>),
     Cat(<<Bol, Str(<<"c", "m", "a", "k", "e">>), Plus(ReS)>>),
     Cat(<<Bol, Str(<<"b", "a", "s", "h">>), Plus(ReS)>>),
     Cat(<<Bol, Str(<<"b", "a", "s", "h">>), Plus(ReS), Str(<<"-", "c">>), Plus(ReS)>>),
     Cat(<<Bol, Str(<<"s", "h">>), Plus(ReS)>>),
     Cat(<<Bol, Str(<<"s", "h">>), Plus(ReS), Str(<<"-", "c">>), Plus(ReS)>>),
     Cat(<<Bol, Str(<<"c", "a", "t">>), Plus(ReS), Star(ReAny)>>),
     Cat(<<Bol, Str(<<"e", "c", "h", "o">>), Plus(ReS), Star(ReAny)>>),
     Cat(<<Bol, Str(<<"s", "l", "e", "e", "p">>), Plus(ReS), Plus(ReD)>>),
     Cat(<<Bol, Str(<<"t", "i", "m", "e", "o", "u", "t">>), Plus(ReS), Plus(ReD), Plus(ReS)>>) >>

DANGEROUS_PATTERNS ==
  << Cat(<<Str(<<"r", "m">>), Plus(ReS), Str(<<"-", "r", "f">>), Plus(ReS), Str(<<"/">>)>>),
     Cat(<<Str(<<"r", "m">>), Plus(ReS), Str(<<"-", "r", "f">>), Plus(ReS), Str(<<"/">>)>>),
     Cat(<<Str(<<"r", "m">>), Plus(ReS), Str(<<"-", "r", "f">>), Plus(ReS), Str(<<"/">>)>>),
     Cat(<<Str(<<"/">>), Star(ReS), Str(<<"|">>), Star(ReS), Str(<<"s", "h">>)>>),
     Cat(<<Str(<<">">>), Star(ReS), Str(<<"/", "d", "e", "v", "/", "n", "u", "l", "l">>)>>),
     Str(<<"$", "(">>),
     Cat(<<Str(<<BackTick>>), Plus(NotCls({BackTick})), Str(<<BackTick>>)>>),
     Cat(<<Str(<<"c", "h", "m", "o", "d">>), Plus(ReS), Str(<<"7", "7", "7">>)>>),
     Cat(<<Str(<<"c", "h", "m", "o", "d">>), Plus(ReS), Str(<<"4", "7", "5", "5">>)>>),
     Cat(<<Str(<<"w", "g", "e", "t">>), Plus(ReS), Star(ReAny), Str(<<"|">>), Star(ReS), Str(<<"s", "h">>)>>),
     Cat(<<Str(<<"c", "u", "r", "l">>), Plus(ReS), Star(ReAny), Str(<<"|">>), Star(ReS), Str(<<"s", "h">>)>>) >>

\* the source text of each dangerous pattern, as String(pattern) prints it
DANGEROUS_SOURCES ==
  << <<"/", "r", "m", "\\", "s", "+", "-", "r", "f", "\\", "s", "+", "\\", "/", "/">>,
     <<"/", "r", "m", "\\", "s", "+", "-", "r", "f", "\\", "s", "+", "\\", "/", "/">>,
     <<"/", "r", "m", "\\", "s", "+", "-", "r", "f", "\\", "s", "+", "\\", "/", "/">>,
     <<"/", "\\", "/", "\\", "s", "*", "\\", "|", "\\", "s", "*", "s", "h", "/">>,
     <<"/", "\\", ">", "\\", "s", "*", "\\", "/", "d", "e", "v", "\\", "/", "n", "u", "l", "l", "/">>,
     <<"/", "\\", "$", "\\", "(", "/">>,
     <<"/", BackTick, "[", "^", BackTick, "]", "+", BackTick, "/">>,
     <<"/", "c", "h", "m", "o", "d", "\\", "s", "+", "7", "7", "7", "/">>,
     <<"/", "c", "h", "m", "o", "d", "\\", "s", "+", "4", "7", "5", "5", "/">>,
     <<"/", "w", "g", "e", "t", "\\", "s", "+", ".", "*", "\\", "|", "\\", "s", "*", "s", "h", "/">>,
     <<"/", "c", "u", "r", "l", "\\", "s", "+", ".", "*", "\\", "|", "\\", "s", "*", "s", "h", "/">> >>

\* the first pattern of ps that matches s, or 0 (the for-of loops return at
\* the first match)
FirstMatch(ps, s) ==
  IF \E i \in 1..Len(ps) : Test(ps[i], s)
  THEN CHOOSE i \in 1..Len(ps) : Test(ps[i], s) /\ \A j \in 1..(i - 1) : ~Test(ps[j], s)
  ELSE 0

\* a CommandValidationResult; reason is the template string as the pair
\* <<literal text, interpolated value>>, <<>> when the field is absent
Rejected(text, arg) ==
  [allowed |-> FALSE, reason |-> <<text, arg>>, sanitized_command |-> <<>>]

Allowed(trimmed) ==
  [allowed |-> TRUE, reason |-> <<>>, sanitized_command |-> trimmed]

BaseCommand(trimmed) == Split(trimmed)[1]

\* validateCommand with the allowlist consulted before the denylist
validateCommand_AllowFirst(command) ==
  LET trimmed == Trim(command)
      danger == FirstMatch(DANGEROUS_PATTERNS, trimmed)
      base_command == BaseCommand(trimmed)
  IN IF trimmed = <<>> THEN Rejected("Empty command", <<>>)
     ELSE IF base_command \in ALLOWED_COMMANDS THEN Allowed(trimmed)
     ELSE IF danger # 0
          THEN Rejected("Dangerous pattern detected: ", DANGEROUS_SOURCES[danger])
     ELSE IF FirstMatch(ALLOWED_PATTERNS, trimmed) # 0 THEN Allowed(trimmed)
     ELSE Rejected("Command not in allowlist: ", base_command)

\* validateCommand reporting the whole command instead of its base token
validateCommand_ReportsCommand(command) ==
  LET trimmed == Trim(command)
      danger == FirstMatch(DANGEROUS_PATTERNS, trimmed)
      base_command == BaseCommand(trimmed)
  IN IF trimmed = <<>> THEN Rejected("Empty command", <<>>)
     ELSE IF danger # 0
          THEN Rejected("Dangerous pattern detected: ", DANGEROUS_SOURCES[danger])
     ELSE IF base_command \in ALLOWED_COMMANDS THEN Allowed(trimmed)
     ELSE IF FirstMatch(ALLOWED_PATTERNS, trimmed) # 0 THEN Allowed(trimmed)
     ELSE Rejected("Command not in allowlist: ", trimmed)

\* validateCommand with the template pass alone deciding what is allowed
validateCommand_TemplatesOnly(command) ==
  LET trimmed == Trim(command)
      danger == FirstMatch(DANGEROUS_PATTERNS, trimmed)
      base_command == BaseCommand(trimmed)
  IN IF trimmed = <<>> THEN Rejected("Empty command", <<>>)
     ELSE IF danger # 0
          THEN Rejected("Dangerous pattern detected: ", DANGEROUS_SOURCES[danger])
     ELSE IF FirstMatch(ALLOWED_PATTERNS, trimmed) # 0 THEN Allowed(trimmed)
     ELSE Rejected("Command not in allowlist: ", base_command)

validateCommand(command) ==
  LET trimmed == Trim(command)
      danger == FirstMatch(DANGEROUS_PATTERNS, trimmed)
      base_command == BaseCommand(trimmed)
  IN IF trimmed = <<>> THEN Rejected("Empty command", <<>>)
     ELSE IF danger # 0
          THEN Rejected("Dangerous pattern detected: ", DANGEROUS_SOURCES[danger])
     ELSE IF base_command \in ALLOWED_COMMANDS THEN Allowed(trimmed)
     ELSE IF FirstMatch(ALLOWED_PATTERNS, trimmed) # 0 THEN Allowed(trimmed)
     ELSE Rejected("Command not in allowlist: ", base_command)

(***************************************************************************)
(* Inputs of the validator: every concatenation of at most MaxFrags        *)
(* fragments.                                                              *)
(***************************************************************************)

MaxFrags == 3

Fragments ==
  { <<"g", "i", "t", " ", "l", "o", "g">>, <<"r", "m", " ", "-", "r", "f", " ", "/">>, <<"f", "o", "o">>, <<" ">>, <<";", " ">>, <<"$", "(", "x", ")">>, <<BackTick, "x", BackTick>>, <<"|", " ", "s", "h">>,
    <<"c", "u", "r", "l", " ", "u">>, <<"p", "y", "t", "h", "o", "n">>, <<"-", "c">>, <<"a", ".", "p", "y">>, <<">", "/", "d", "e", "v", "/", "n", "u", "l", "l">>, <<"c", "h", "m", "o", "d", " ", "7", "7", "7">> }

\* vresult before validateCommand has been applied
NoResult == [allowed |-> FALSE, reason |-> <<>>, sanitized_command |-> <<>>]

\* the characters of /[;&|`$(){}[\]\\]/
ShellMetacharacters ==
  {";", "&", "|", BackTick, "$", "(", ")", "{", "}", "[", "]", "\\"}

\* part.replace(/[;&|`$(){}[\]\\]/g, "")
StripMeta(part) == SelectSeq(part, LAMBDA c : c \notin ShellMetacharacters)

\* Array.prototype.join(" ")
RECURSIVE Join(_)
Join(parts) ==
  IF parts = <<>> THEN <<>>
  ELSE IF Len(parts) = 1 THEN parts[1]
  ELSE parts[1] \o <<" ">> \o Join(Tail(parts))

\* sanitizeCommand that strips the metacharacters from no token
sanitizeCommand_KeepsAll(command) == Join(Split(Trim(command)))

\* lines 140-156
sanitizeCommand(command) ==
  LET parts == Split(Trim(command))
      sanitized_parts ==
        [i \in 1..Len(parts) |->
           IF parts[i] # <<>> /\ parts[i][1] = "-"
           THEN StripMeta(parts[i])
           ELSE parts[i]]
  IN Join(sanitized_parts)

\* vsanitized before sanitizeCommand has been applied
NotSanitized == [done |-> FALSE, out |-> <<>>]

VARIABLES vcommand, vfrags, vresult, vsanitized

vvars == <<vcommand, vfrags, vresult, vsanitized>>

VInit ==
  /\ vcommand = <<>>
  /\ vfrags = 0
  /\ vresult = NoResult
  /\ vsanitized = NotSanitized

\* the caller builds the command string
VExtend ==
  /\ vresult = NoResult
  /\ ~vsanitized.done
  /\ vfrags < MaxFrags
  /\ \E f \in Fragments : vcommand' = vcommand \o f
  /\ vfrags' = vfrags + 1
  /\ UNCHANGED <<vresult, vsanitized>>

\* validateCommand(command)
VValidate ==
  /\ vresult = NoResult
  /\ vresult' = validateCommand(vcommand)
  /\ UNCHANGED <<vcommand, vfrags, vsanitized>>

VNext == VExtend \/ VValidate

\* sanitizeCommand(command)
VSanitize ==
  /\ ~vsanitized.done
  /\ vsanitized' = [done |-> TRUE, out |-> sanitizeCommand(vcommand)]
  /\ UNCHANGED <<vcommand, vfrags, vresult>>

NextSanitize == VExtend \/ VSanitize

(***************************************************************************)
(* parseMemory (src/test-remote.ts lines 136-151 and, with the same text,  *)
(* src/scripts/ssh-executor.ts lines 197-212)                              *)
(***************************************************************************)

\* String.prototype.toUpperCase, on the letters of the model's alphabet
UpperChar(c) ==
  CASE c = "g" -> "G" [] c = "m" -> "M" [] c = "k" -> "K" [] c = "b" -> "B"
    [] c = "t" -> "T" [] OTHER -> c

LowerChar(c) ==
  CASE c = "G" -> "g" [] c = "M" -> "m" [] c = "K" -> "k" [] c = "B" -> "b"
    [] c = "T" -> "t" [] OTHER -> c

toUpperCase(s) == [i \in 1..Len(s) |-> UpperChar(s[i])]

\* a literal under the i flag: each character in either case
StrI(cs) == Cat([i \in 1..Len(cs) |-> Cls({UpperChar(cs[i]), LowerChar(cs[i])})])

\* /^(\d+)(GB|MB|KB)?$/i
MEMORY_PATTERN ==
  Cat(<<Bol, Plus(ReD),
        Opt(Alt(<<StrI(<<"G", "B">>), StrI(<<"M", "B">>), StrI(<<"K", "B">>)>>)),
        Eol>>)

\* the number of digits at the start of s: what (\d+) captures in a match
RECURSIVE LeadingDigits(_)
LeadingDigits(s) ==
  IF s # <<>> /\ Head(s) \in Digits THEN 1 + LeadingDigits(Tail(s)) ELSE 0

DigitValue(c) ==
  CASE c = "0" -> 0 [] c = "1" -> 1 [] c = "2" -> 2 [] c = "3" -> 3 [] c = "4" -> 4
    [] c = "5" -> 5 [] c = "6" -> 6 [] c = "7" -> 7 [] c = "8" -> 8 [] c = "9" -> 9

\* parseInt(digits, 10) of a string of digits
RECURSIVE parseInt(_)
parseInt(digits) ==
  IF digits = <<>> THEN 0
  ELSE parseInt(SubSeq(digits, 1, Len(digits) - 1)) * 10 + DigitValue(digits[Len(digits)])

\* parseMemory with Math.floor in place of Math.ceil
parseMemory_Floor(memStr) ==
  IF ~Test(MEMORY_PATTERN, memStr) THEN 2048
  ELSE LET n == LeadingDigits(memStr)
           value == parseInt(SubSeq(memStr, 1, n))
           group2 == SubSeq(memStr, n + 1, Len(memStr))
           unit == toUpperCase(IF group2 = <<>> THEN <<"M", "B">> ELSE group2)
       IN CASE unit = <<"G", "B">> -> value * 1024
            [] unit = <<"K", "B">> -> value \div 1024
            [] OTHER -> value

\* lines 136-151
parseMemory(memStr) ==
  IF ~Test(MEMORY_PATTERN, memStr) THEN 2048
  ELSE LET n == LeadingDigits(memStr)
           value == parseInt(SubSeq(memStr, 1, n))
           group2 == SubSeq(memStr, n + 1, Len(memStr))
           unit == toUpperCase(IF group2 = <<>> THEN <<"M", "B">> ELSE group2)
       IN CASE unit = <<"G", "B">> -> value * 1024
            [] unit = <<"K", "B">> -> (value + 1023) \div 1024
            [] OTHER -> value

\* characters of a limits.memory string
MaxMemLen == 6

\* the pieces limits.memory strings are built from
MemFragments ==
  { <<"0">>, <<"1">>, <<"1", "0", "2", "4">>, <<"1", "0", "2", "5">>,
    <<"G", "B">>, <<"M", "B">>, <<"K", "B">>, <<"g", "b">>, <<"K", "b">>,
    <<"T", "B">>, <<".">>, <<" ">>, <<"\n">> }

\* memoryMb before parseMemory has been applied
NotParsed == -1

VARIABLES memStr, memoryMb

mvars == <<memStr, memoryMb>>

MInit ==
  /\ memStr = <<>>
  /\ memoryMb = NotParsed

\* the orchestrator builds the limits.memory string of a job
MExtend ==
  /\ memoryMb = NotParsed
  /\ \E f \in MemFragments :
       /\ Len(memStr) + Len(f) <= MaxMemLen
       /\ memStr' = memStr \o f
  /\ UNCHANGED memoryMb

\* test-remote.ts line 68, ssh-executor.ts line 136
MParse ==
  /\ memoryMb = NotParsed
  /\ memoryMb' = parseMemory(memStr)
  /\ UNCHANGED memStr

MNext == MExtend \/ MParse

(***************************************************************************)
(* The session lifecycle manager (src/src/session/lifecycle.ts) and the    *)
(* job entry points.  Every asynchronous function is cut at its awaits of  *)
(* real I/O: one action runs from one await to the next, as one turn of    *)
(* the event loop does.                                                    *)
(***************************************************************************)

\* concurrent callers of the shared manager
MaxThreads == 2
\* concurrent job runs
MaxJobs == 1
\* session ids generated
MaxSessions == 2
\* job runs started
MaxRuns == 1
\* direct calls of the shared manager started
MaxCalls == 3

Callers == 1..MaxThreads
Workers == 1..MaxJobs
Threads == Callers \cup Workers
Sids == 1..MaxSessions

\* the commands and file maps the jobs of the model are submitted with
JobCommands == { <<"e", "c", "h", "o", " ", "h", "i">>, <<"r", "m", " ", "-", "r", "f", " ", "/">> }
\* a files map is the sequence of its (filename, content) entries in
\* insertion order; a filename is the sequence of its segments between "/"
Entry(name, content) == [name |-> name, content |-> content]

JobFiles == { <<>>, <<Entry(<<"task.json">>, "x")>> }

\* entries of a files map handed to prepareSession by a direct caller
MaxFiles == 2

\* "a.txt", "./a.txt", "sub/a.txt" and "../a.txt"
FileNames == { <<"a.txt">>, <<".", "a.txt">>, <<"sub", "a.txt">>, <<"..", "a.txt">> }

\* the files maps of at most MaxFiles entries: the keys of an object are
\* pairwise different strings; the content of the i-th entry is the numeral i
PrepareFiles ==
  UNION { { [i \in 1..n |-> Entry(m[i], ToString(i))] :
              m \in { k \in [1..n -> FileNames] : \A i, j \in 1..n : i # j => k[i] # k[j] } } :
          n \in 0..MaxFiles }

\* what a child leaves in output_dir: nothing, or one entry
ChildOutputs == { {}, {"result.txt"} }

\* exit codes of a child that exits by itself
ExitCodes == {0, 42}

VARIABLES
  session,          \* the SessionContext objects, by session id
  next_session,     \* number of session ids generated so far
  dirs,             \* the directories that exist: <<sid, "session"|"work"|"output">>
  disk_files,       \* the files on disk: [root, path, content, by, via]
  active_sessions,  \* the keys of the active_sessions maps (of all managers)
  notifications,    \* the onStateChange calls, by session id: <<old, new>>
  callbacks,        \* onStateChange of the manager the API callers share
  call,             \* per thread: the manager method it is executing
  job,              \* per thread: the entry point it is running
  effects,          \* per thread: what the current run has done so far
  started,          \* number of runs and API calls started
  worker_closed     \* LocalRemoteWorker.cleanup has been called

svars == <<session, next_session, dirs, disk_files, active_sessions,
           notifications, callbacks, call, job, effects, started, worker_closed>>


NoSession ==
  [alloc |-> FALSE, job_id |-> 0, state |-> "INIT", error |-> FALSE,
   mgr |-> "none", warned |-> FALSE]

\* a call of a manager method: op is the method, pc the await it is parked
\* at, st whether it is running, has returned or has thrown; given is the
\* files argument, files the entries the loop has yet to write
Frame(op, pc, st, sid) ==
  [op |-> op, pc |-> pc, st |-> st, sid |-> sid, files |-> <<>>,
   given |-> <<>>, val |-> 0, sig |-> "none", err |-> "none", artifacts |-> {}]

IdleFrame == Frame("none", "none", "ret", 0)

IdleJob ==
  [kind |-> "idle", jpc |-> "idle", command |-> <<>>, files |-> <<>>,
   job_id |-> 0, sid |-> 0, todo |-> <<>>, validation |-> NoResult,
   status |-> "none", exit_code |-> 0, stderr |-> <<>>, err |-> "none"]

NoEffects == [validated |-> FALSE, provisioned |-> FALSE, spawned |-> FALSE,
              registered |-> FALSE, forced |-> FALSE]

\* ---- paths and files ----------------------------------------------------

\* base_dir of the manager of session s: the default of lifecycle.ts and
\* streaming.ts, or the test directory the harness passes
BaseDir(s) ==
  CASE session[s].mgr = "api" -> "testDir"
    [] session[s].mgr = "worker" -> "testDir-remote"
    [] OTHER -> "/opt/opencode"

RECURSIVE Resolve(_, _)
\* path.join(dir, name), both as segments below sessions_dir: "." and empty
\* segments are dropped, ".." removes the segment before it and is kept when
\* there is none left to remove
Resolve(stack, segs) ==
  IF segs = <<>> THEN stack
  ELSE LET h == Head(segs)
       IN Resolve(IF h \in {".", ""} THEN stack
                  ELSE IF h = ".." /\ stack # <<>> /\ stack[Len(stack)] # ".."
                       THEN SubSeq(stack, 1, Len(stack) - 1)
                       ELSE Append(stack, h),
                  Tail(segs))

\* a directory name that does not depend on the session id
SessionName_Shared(s) == "session"

\* `session-${session_id}`
SessionName(s) == ToString(s)

SessionDir(s) == <<SessionName(s)>>
WorkDir(s) == <<SessionName(s), "work">>
OutputDir(s) == <<SessionName(s), "output">>

\* p is strictly below the directory d
Under(p, d) == Len(p) > Len(d) /\ SubSeq(p, 1, Len(d)) = d

\* the directory p exists under base directory root: sessions_dir and the
\* directories above it, and the directories the sessions have created
DirExists(root, p) ==
  \/ \A i \in 1..Len(p) : p[i] = ".."
  \/ \E s \in Sids :
       /\ session[s].alloc
       /\ BaseDir(s) = root
       /\ \/ p = SessionDir(s) /\ <<s, "session">> \in dirs
          \/ p = WorkDir(s) /\ <<s, "work">> \in dirs
          \/ p = OutputDir(s) /\ <<s, "output">> \in dirs

\* p, a path relative to sessions_dir, is inside base_dir (the parent of
\* sessions_dir)
InBaseDir(p) == ~(Len(p) >= 2 /\ p[1] = ".." /\ p[2] = "..")

\* fs.writeFile(path) can succeed: the parent is a directory and the path
\* itself is not one
CanWrite(root, p) ==
  /\ p # <<>>
  /\ DirExists(root, SubSeq(p, 1, Len(p) - 1))
  /\ ~DirExists(root, p)

\* the files after fs.writeFile(path, content) by session s: an existing
\* file is replaced
WriteFile(p, content, s) ==
  {f \in disk_files : ~(f.root = BaseDir(s) /\ f.path = p)}
    \cup {[root |-> BaseDir(s), path |-> p, content |-> content, by |-> s,
            via |-> "files"]}

\* fs.readdir(d, {recursive: true}): the entries under d, relative to d
Readdir(root, d) ==
  {SubSeq(f.path, Len(d) + 1, Len(f.path)) : f \in {g \in disk_files : g.root = root /\ Under(g.path, d)}}

\* the paths of the entries a child writes into the output_dir of session s
ChildPaths(s, written) == {OutputDir(s) \o <<n>> : n \in written}

\* the files after fs.rm(d, {recursive: true}) in the base directory of s
RemoveTree(d, s) ==
  {f \in disk_files : ~(f.root = BaseDir(s) /\ Under(f.path, d))}

\* callbacks.onStateChange is set only on the manager of the API callers
\* (part_003 testSessionLifecycle); runSessionLifecycle and
\* LocalRemoteWorker construct their managers without callbacks
HasCallback(s) == session[s].mgr = "api" /\ callbacks # "none"

\* whether the onStateChange callback of s's manager may throw
Throws(s) == IF session[s].mgr = "api" /\ callbacks = "throws" THEN BOOLEAN ELSE {FALSE}

\* a transitionState that warns and leaves the state on a mismatch
TransitionState_Strict(s, from, to) ==
  IF session[s].state = from
  THEN [session EXCEPT ![s].state = to]
  ELSE [session EXCEPT ![s].warned = TRUE]

\* transitionState(session, from, to): the session objects after it
TransitionState(s, from, to) ==
  [session EXCEPT ![s].state = to,
                  ![s].warned = @ \/ session[s].state # from]

\* old_state read after the assignment of the new state
Notify_StaleOld(s, to) ==
  IF HasCallback(s)
  THEN [notifications EXCEPT ![s] = Append(@, <<to, to>>)]
  ELSE notifications

\* the onStateChange calls after transitionState(session, from, to)
Notify(s, to) ==
  IF HasCallback(s)
  THEN [notifications EXCEPT ![s] = Append(@, <<session[s].state, to>>)]
  ELSE notifications

SetCall(t, f) == call' = [call EXCEPT ![t] = f]

Running(t, op, pc) == call[t].op = op /\ call[t].pc = pc /\ call[t].st = "run"

\* ---- createSession ------------------------------------------------------

\* lines 41-66: the session object is built and fs.mkdir(work_dir) is issued
StartCreateSession(t, mgr, job_id) ==
  LET sid == next_session + 1
  IN /\ next_session < MaxSessions
     /\ next_session' = sid
     /\ session' = [session EXCEPT ![sid] =
                      [alloc |-> TRUE, job_id |-> job_id, state |-> "INIT",
                       error |-> FALSE, mgr |-> mgr, warned |-> FALSE]]
     /\ SetCall(t, Frame("createSession", "mkdir_work", "run", sid))
     /\ UNCHANGED <<dirs, disk_files, active_sessions, notifications>>

\* line 66 completes; line 67 is issued
CreateMkdirWork(t) ==
  LET s == call[t].sid
  IN /\ Running(t, "createSession", "mkdir_work")
     /\ \/ /\ dirs' = dirs \cup {<<s, "session">>, <<s, "work">>}
           /\ call' = [call EXCEPT ![t].pc = "mkdir_output"]
           /\ effects' = [effects EXCEPT ![t].provisioned = TRUE]
        \/ /\ dirs' = dirs \cup {<<s, "session">>}
           /\ call' = [call EXCEPT ![t].st = "throw", ![t].err = "mkdir"]
           /\ effects' = [effects EXCEPT ![t].provisioned = TRUE]
        \/ /\ call' = [call EXCEPT ![t].st = "throw", ![t].err = "mkdir"]
           /\ UNCHANGED <<dirs, effects>>
     /\ UNCHANGED <<session, next_session, disk_files, active_sessions,
                    notifications, callbacks, job, started, worker_closed>>

\* line 67 completes; lines 69-79
CreateMkdirOutput(t) ==
  LET s == call[t].sid
  IN /\ Running(t, "createSession", "mkdir_output")
     /\ \/ /\ dirs' = dirs \cup {<<s, "session">>, <<s, "output">>}
           /\ active_sessions' = active_sessions \cup {s}
           /\ session' = TransitionState(s, "INIT", "PREPARING")
           /\ notifications' = Notify(s, "PREPARING")
           /\ effects' = [effects EXCEPT ![t].registered = TRUE]
           /\ \E throws \in Throws(s) :
                call' = [call EXCEPT ![t].st = IF throws THEN "throw" ELSE "ret",
                                     ![t].err = IF throws THEN "callback" ELSE "none"]
        \/ /\ call' = [call EXCEPT ![t].st = "throw", ![t].err = "mkdir"]
           /\ UNCHANGED <<dirs, active_sessions, session, notifications, effects>>
     /\ UNCHANGED <<next_session, disk_files, callbacks, job, started, worker_closed>>

\* ---- prepareSession -----------------------------------------------------

\* lines 86-90 up to the first await
StartPrepareSession(t, s, files) ==
  /\ session' = TransitionState(s, "PREPARING", "PREPARING")
  /\ notifications' = Notify(s, "PREPARING")
  /\ \E throws \in Throws(s) :
       SetCall(t, [Frame("prepareSession",
                         IF throws \/ files = <<>> THEN "none" ELSE "write",
                         IF throws THEN "throw" ELSE IF files = <<>> THEN "ret" ELSE "run",
                         s)
                   EXCEPT !.files = files, !.given = files,
                          !.err = IF throws THEN "callback" ELSE "none"])
  /\ UNCHANGED <<next_session, dirs, disk_files, active_sessions>>

\* line 90 completes for one file; the loop goes on
PrepareWrite(t) ==
  LET s == call[t].sid
      files == call[t].files
  IN /\ Running(t, "prepareSession", "write")
     /\ \/ /\ CanWrite(BaseDir(s), Resolve(WorkDir(s), Head(files).name))
           /\ disk_files' = WriteFile(Resolve(WorkDir(s), Head(files).name),
                                      Head(files).content, s)
           /\ call' = [call EXCEPT ![t].files = Tail(files),
                                   ![t].st = IF Tail(files) = <<>> THEN "ret" ELSE "run"]
        \/ /\ call' = [call EXCEPT ![t].st = "throw", ![t].err = "writeFile"]
           /\ UNCHANGED disk_files
     /\ UNCHANGED <<session, next_session, dirs, active_sessions, notifications,
                    callbacks, job, effects, started, worker_closed>>

\* ---- executeCommand -----------------------------------------------------

\* lines 103-111 up to the await of import("child_process")
StartExecuteCommand(t, s) ==
  /\ session' = TransitionState(s, "PREPARING", "EXECUTING")
  /\ notifications' = Notify(s, "EXECUTING")
  /\ \E throws \in Throws(s) :
       SetCall(t, [Frame("executeCommand", IF throws THEN "none" ELSE "exec",
                         IF throws THEN "throw" ELSE "run", s)
                   EXCEPT !.err = IF throws THEN "callback" ELSE "none"])
  /\ UNCHANGED <<next_session, dirs, disk_files, active_sessions>>

\* lines 113-139: execSync blocks until the child has exited; a missing cwd
\* makes the spawn fail; error.status is null when the child was killed
\* The child runs in work_dir and writes the entries of one element of
\* outputs into output_dir, when that directory exists.
ExecSyncWith(t, outputs) ==
  LET s == call[t].sid
  IN /\ Running(t, "executeCommand", "exec")
     /\ IF <<s, "work">> \in dirs
        THEN /\ \E code \in ExitCodes \cup {-1} :
                  call' = [call EXCEPT ![t].st = "ret", ![t].val = code]
             /\ effects' = [effects EXCEPT ![t].spawned = TRUE]
             /\ \E written \in outputs :
                  disk_files' =
                    IF <<s, "output">> \in dirs
                    THEN {f \in disk_files :
                            ~(f.root = BaseDir(s) /\ f.path \in ChildPaths(s, written))}
                         \cup {[root |-> BaseDir(s), path |-> p, content |-> "out",
                                  by |-> s, via |-> "child"] :
                                 p \in ChildPaths(s, written)}
                    ELSE disk_files
        ELSE /\ call' = [call EXCEPT ![t].st = "ret", ![t].val = -1]
             /\ UNCHANGED <<effects, disk_files>>
     /\ UNCHANGED <<session, next_session, dirs, active_sessions,
                    notifications, callbacks, job, started, worker_closed>>

\* a child that leaves output_dir as it is
ExecSync(t) == ExecSyncWith(t, {{}})

\* ---- collectArtifacts ---------------------------------------------------

\* lines 143-148 up to the await of fs.readdir
StartCollectArtifacts(t, s) ==
  /\ session' = TransitionState(s, "EXECUTING", "COLLECTING")
  /\ notifications' = Notify(s, "COLLECTING")
  /\ \E throws \in Throws(s) :
       SetCall(t, [Frame("collectArtifacts", IF throws THEN "none" ELSE "readdir",
                         IF throws THEN "throw" ELSE "run", s)
                   EXCEPT !.err = IF throws THEN "callback" ELSE "none"])
  /\ UNCHANGED <<next_session, dirs, disk_files, active_sessions>>

\* a catch block that throws the readdir error again
CollectReaddir_Rethrows(t) ==
  LET s == call[t].sid
  IN /\ Running(t, "collectArtifacts", "readdir")
     /\ \/ /\ <<s, "output">> \in dirs
           /\ call' = [call EXCEPT ![t].st = "ret",
                                   ![t].artifacts = Readdir(BaseDir(s), OutputDir(s))]
        \/ call' = [call EXCEPT ![t].st = "throw", ![t].err = "readdir"]
     /\ UNCHANGED <<session, next_session, dirs, disk_files, active_sessions,
                    notifications, callbacks, job, effects, started, worker_closed>>

\* lines 148-167: fs.readdir lists output_dir, or fails because the
\* directory is missing or cannot be read; the error is caught and the
\* list, then still empty, is returned
CollectReaddir(t) ==
  LET s == call[t].sid
  IN /\ Running(t, "collectArtifacts", "readdir")
     /\ \/ /\ <<s, "output">> \in dirs
           /\ call' = [call EXCEPT ![t].st = "ret",
                                   ![t].artifacts = Readdir(BaseDir(s), OutputDir(s))]
        \/ call' = [call EXCEPT ![t].st = "ret", ![t].artifacts = {}]
  /\ UNCHANGED <<session, next_session, dirs, disk_files, active_sessions,
                 notifications, callbacks, job, effects, started, worker_closed>>

\* ---- destroySession, destroySessionSafe ---------------------------------

\* a catch block that only logs
CaughtBySafe_LogOnly(sess, s) == sess

\* lines 205-211: the catch block of destroySessionSafe
CaughtBySafe(sess, s) == [sess EXCEPT ![s].state = "DESTROYED"]

\* destroySession up to its first await (lines 171-178).  With safe, the
\* call is destroySessionSafe (lines 203-211): an exception of
\* destroySession is caught and the state is set to DESTROYED.
StartDestroySession(t, s, safe) ==
  LET op == IF safe THEN "destroySessionSafe" ELSE "destroySession"
  IN IF session[s].state = "DESTROYED"
     THEN /\ SetCall(t, Frame(op, "none", "ret", s))
          /\ UNCHANGED <<session, next_session, dirs, disk_files,
                         active_sessions, notifications>>
     ELSE /\ notifications' = Notify(s, "DESTROYING")
          /\ \E throws \in Throws(s) :
               IF throws
               THEN IF safe
                    THEN /\ session' = CaughtBySafe(TransitionState(s, session[s].state, "DESTROYING"), s)
                         /\ SetCall(t, Frame(op, "none", "ret", s))
                    ELSE /\ session' = TransitionState(s, session[s].state, "DESTROYING")
                         /\ SetCall(t, [Frame(op, "none", "throw", s)
                                        EXCEPT !.err = "callback"])
               ELSE /\ session' = TransitionState(s, session[s].state, "DESTROYING")
                    /\ SetCall(t, Frame(op, "rm_work", "run", s))
          /\ UNCHANGED <<next_session, dirs, disk_files, active_sessions>>

IsDestroy(t, pc) ==
  /\ call[t].op \in {"destroySession", "destroySessionSafe"}
  /\ call[t].pc = pc
  /\ call[t].st = "run"

\* the error is recorded but the state is not set (no finally block)
DestroyFailed_NoFinally(t) ==
  LET s == call[t].sid
  IN /\ session' = [session EXCEPT ![s].error = TRUE]
     /\ call' = [call EXCEPT ![t].st = "ret", ![t].pc = "none"]

\* lines 190-199: a failed fs.rm is caught, the error is recorded and the
\* finally block sets the state
DestroyFailed(t) ==
  LET s == call[t].sid
  IN /\ session' = [session EXCEPT ![s].error = TRUE, ![s].state = "DESTROYED"]
     /\ call' = [call EXCEPT ![t].st = "ret", ![t].pc = "none"]

\* line 178 completes
DestroyRmWork(t) ==
  LET s == call[t].sid
  IN /\ IsDestroy(t, "rm_work")
     /\ \/ /\ dirs' = dirs \ {<<s, "work">>}
           /\ disk_files' = RemoveTree(WorkDir(s), s)
           /\ call' = [call EXCEPT ![t].pc = "rm_output"]
           /\ UNCHANGED session
        \/ /\ <<s, "work">> \in dirs
           /\ DestroyFailed(t)
           /\ UNCHANGED <<dirs, disk_files>>
     /\ UNCHANGED <<next_session, active_sessions, notifications, callbacks,
                    job, effects, started, worker_closed>>

\* line 179 completes
DestroyRmOutput(t) ==
  LET s == call[t].sid
  IN /\ IsDestroy(t, "rm_output")
     /\ \/ /\ dirs' = dirs \ {<<s, "output">>}
           /\ disk_files' = RemoveTree(OutputDir(s), s)
           /\ call' = [call EXCEPT ![t].pc = "rm_session"]
           /\ UNCHANGED session
        \/ /\ <<s, "output">> \in dirs
           /\ DestroyFailed(t)
           /\ UNCHANGED <<dirs, disk_files>>
     /\ UNCHANGED <<next_session, active_sessions, notifications,
                    callbacks, job, effects, started, worker_closed>>

\* line 182 completes; lines 184-199
DestroyRmSessionDir(t) ==
  LET s == call[t].sid
  IN /\ IsDestroy(t, "rm_session")
     /\ \/ /\ dirs' = {d \in dirs : d[1] # s}
           /\ disk_files' = RemoveTree(SessionDir(s), s)
           /\ active_sessions' = active_sessions \ {s}
           /\ session' = [session EXCEPT ![s].state = "DESTROYED"]
           /\ call' = [call EXCEPT ![t].st = "ret", ![t].pc = "none"]
        \/ /\ <<s, "session">> \in dirs
           /\ DestroyFailed(t)
           /\ UNCHANGED <<dirs, disk_files, active_sessions>>
     /\ UNCHANGED <<next_session, notifications, callbacks, job, effects,
                    started, worker_closed>>

\* ---- executeWithGovernance (allowlist.ts lines 345-386) -----------------

\* lines 350-353 up to the await of import("child_process")
StartExecuteWithGovernance(t, s) ==
  /\ SetCall(t, Frame("executeWithGovernance", "spawn", "run", s))
  /\ UNCHANGED <<session, next_session, dirs, disk_files, active_sessions,
                 notifications>>

\* lines 355-374: spawnSync blocks until the child has exited, until its
\* timeout or maxBuffer option has killed the child (status null, signal
\* SIGTERM), or until a signal sent by the child itself, the kernel or an
\* operator has ended it (status null, that signal); a missing cwd makes the
\* spawn fail (status null, no signal)
SpawnSync(t) ==
  LET s == call[t].sid
  IN /\ Running(t, "executeWithGovernance", "spawn")
     /\ IF <<s, "work">> \in dirs
        THEN \/ /\ \E code \in ExitCodes :
                     call' = [call EXCEPT ![t].st = "ret", ![t].val = code]
                /\ effects' = [effects EXCEPT ![t].spawned = TRUE]
             \/ /\ call' = [call EXCEPT ![t].st = "ret", ![t].val = -1,
                                        ![t].sig = "SIGTERM"]
                /\ effects' = [effects EXCEPT ![t].spawned = TRUE,
                                              ![t].forced = TRUE]
             \/ /\ call' = [call EXCEPT ![t].st = "ret", ![t].val = -1,
                                        ![t].sig = "SIGKILL"]
                /\ effects' = [effects EXCEPT ![t].spawned = TRUE]
        ELSE /\ call' = [call EXCEPT ![t].st = "ret", ![t].val = -1]
             /\ UNCHANGED effects
     /\ UNCHANGED <<session, next_session, dirs, disk_files, active_sessions,
                    notifications, callbacks, job, started, worker_closed>>

(***************************************************************************)
(* The entry points                                                        *)
(***************************************************************************)

Finished(t) ==
  \/ job[t].jpc \in {"idle", "returned", "thrown"}
  \/ job[t].kind = "api" /\ call[t].st # "run"

\* runs that have started and have not yet taken their session id
Pending == Cardinality({t \in Threads : job[t].jpc = "initialize"})

CanStart(t) == Finished(t) /\ started < MaxRuns

CanCall(t) == Finished(t) /\ started < MaxCalls

HasRoom == next_session + Pending < MaxSessions

NewJob(kind, jpc, command, files) ==
  [IdleJob EXCEPT !.kind = kind, !.jpc = jpc, !.command = command,
                  !.files = files, !.job_id = started + 1]

Awaited(t, jpc, op) ==
  /\ job[t].jpc = jpc
  /\ call[t].op = op
  /\ call[t].st # "run"

\* ---- runSessionLifecycle (lifecycle.ts lines 260-297) -------------------

\* lines 270-271 up to the await of fs.mkdir(sessions_dir)
RslStart(t) ==
  /\ CanStart(t)
  /\ HasRoom
  /\ \E command \in JobCommands, files \in JobFiles :
       job' = [job EXCEPT ![t] = NewJob("runSessionLifecycle", "initialize", command, files)]
  /\ call' = [call EXCEPT ![t] = IdleFrame]
  /\ effects' = [effects EXCEPT ![t] = NoEffects]
  /\ started' = started + 1
  /\ UNCHANGED <<session, next_session, dirs, disk_files, active_sessions,
                 notifications, callbacks, worker_closed>>

\* line 271 completes; line 273 calls createSession
RslInitialize(t) ==
  /\ job[t].kind = "runSessionLifecycle"
  /\ job[t].jpc = "initialize"
  /\ \/ /\ StartCreateSession(t, "rsl", job[t].job_id)
        /\ job' = [job EXCEPT ![t].jpc = "createSession"]
     \/ /\ job' = [job EXCEPT ![t].jpc = "thrown", ![t].err = "mkdir"]
        /\ UNCHANGED <<session, next_session, dirs, disk_files, active_sessions,
                       notifications, call>>
  /\ UNCHANGED <<callbacks, effects, started, worker_closed>>

\* the finally block (line 295) with the exception err pending
RslToFinally(t, err) ==
  /\ StartDestroySession(t, job[t].sid, TRUE)
  /\ job' = [job EXCEPT ![t].jpc = "finally", ![t].err = err]

\* line 273 returns or throws; line 276 calls prepareSession
RslCreated(t) ==
  /\ job[t].kind = "runSessionLifecycle"
  /\ Awaited(t, "createSession", "createSession")
  /\ IF call[t].st = "ret"
     THEN /\ StartPrepareSession(t, call[t].sid, job[t].files)
          /\ job' = [job EXCEPT ![t].jpc = "prepareSession", ![t].sid = call[t].sid]
     ELSE /\ job' = [job EXCEPT ![t].jpc = "thrown", ![t].err = call[t].err]
          /\ call' = [call EXCEPT ![t] = IdleFrame]
          /\ UNCHANGED <<session, next_session, dirs, disk_files, active_sessions,
                         notifications>>
  /\ UNCHANGED <<callbacks, effects, started, worker_closed>>

\* line 276 returns or throws; line 279 calls executeCommand
RslPrepared(t) ==
  /\ job[t].kind = "runSessionLifecycle"
  /\ Awaited(t, "prepareSession", "prepareSession")
  /\ IF call[t].st = "ret"
     THEN /\ StartExecuteCommand(t, job[t].sid)
          /\ job' = [job EXCEPT ![t].jpc = "executeCommand"]
     ELSE RslToFinally(t, call[t].err)
  /\ UNCHANGED <<callbacks, effects, started, worker_closed>>

\* line 279 returns or throws; line 285 calls collectArtifacts
RslExecuted(t) ==
  /\ job[t].kind = "runSessionLifecycle"
  /\ Awaited(t, "executeCommand", "executeCommand")
  /\ IF call[t].st = "ret"
     THEN /\ StartCollectArtifacts(t, job[t].sid)
          /\ job' = [job EXCEPT ![t].jpc = "collectArtifacts",
                                ![t].exit_code = call[t].val]
     ELSE RslToFinally(t, call[t].err)
  /\ UNCHANGED <<callbacks, effects, started, worker_closed>>

\* line 285 returns or throws; the finally block calls destroySessionSafe
RslCollected(t) ==
  /\ job[t].kind = "runSessionLifecycle"
  /\ Awaited(t, "collectArtifacts", "collectArtifacts")
  /\ RslToFinally(t, call[t].err)
  /\ UNCHANGED <<callbacks, effects, started, worker_closed>>

\* line 295 returns; the run returns its result or rethrows
RslFinally(t) ==
  /\ job[t].kind = "runSessionLifecycle"
  /\ Awaited(t, "finally", "destroySessionSafe")
  /\ job' = [job EXCEPT
               ![t].jpc = IF call[t].st = "throw" \/ job[t].err # "none"
                          THEN "thrown" ELSE "returned",
               ![t].err = IF call[t].st = "throw" THEN call[t].err ELSE @]
  /\ call' = [call EXCEPT ![t] = IdleFrame]
  /\ UNCHANGED <<session, next_session, dirs, disk_files, active_sessions,
                 notifications, callbacks, effects, started, worker_closed>>

\* ---- LocalRemoteWorker.runJob (test-remote.ts lines 50-125) -------------

\* lines 108-124: the result the catch block builds from the error
FailedResult(j, error) ==
  [j EXCEPT !.jpc = "returned", !.status = "failed", !.exit_code = -1,
            !.stderr = error]

\* String(new Error(`Command not allowed: ${validation.reason}`))
NotAllowedError(v) == <<"Error: Command not allowed: ", v.reason[1], v.reason[2]>>

\* String(error) of an error thrown by the manager
ThrownError(err) == <<"Error: ", err>>

\* the run goes on whatever validateCommand returned
ValidationPassed_Ignored(v) == TRUE

\* line 57: whether the run goes on after validation
ValidationPassed(v) == v.allowed

\* lines 84-90
JobStatus(exit_code, signal) ==
  IF signal \in {"SIGTERM", "SIGKILL"} THEN "timeout"
  ELSE IF exit_code # 0 THEN "failed"
  ELSE "finished"

\* lines 51-62: validation, then the call of createSession
RunJobStart(t) ==
  /\ CanStart(t)
  /\ ~worker_closed
  /\ started' = started + 1
  /\ \E command \in JobCommands, files \in JobFiles :
       LET v == validateCommand(command)
           j == [NewJob("runJob", "createSession", command, files)
                 EXCEPT !.validation = v]
       IN /\ effects' = [effects EXCEPT ![t] = [NoEffects EXCEPT !.validated = v.allowed]]
          /\ IF ValidationPassed(v)
             THEN /\ HasRoom
                  /\ StartCreateSession(t, "worker", started + 1)
                  /\ job' = [job EXCEPT ![t] = j]
             ELSE /\ job' = [job EXCEPT ![t] = FailedResult(j, NotAllowedError(v))]
                  /\ call' = [call EXCEPT ![t] = IdleFrame]
                  /\ UNCHANGED <<session, next_session, dirs, disk_files,
                                 active_sessions, notifications>>
  /\ UNCHANGED <<callbacks, worker_closed>>

\* the catch block, entered from an awaited manager call
RunJobCatch(t) ==
  /\ job' = [job EXCEPT ![t] = FailedResult(@, ThrownError(call[t].err))]
  /\ call' = [call EXCEPT ![t] = IdleFrame]
  /\ UNCHANGED <<session, next_session, dirs, disk_files, active_sessions,
                 notifications>>

\* line 62 returns or throws; line 65 calls prepareSession
RunJobCreated(t) ==
  /\ job[t].kind = "runJob"
  /\ Awaited(t, "createSession", "createSession")
  /\ IF call[t].st = "ret"
     THEN /\ StartPrepareSession(t, call[t].sid, job[t].files)
          /\ job' = [job EXCEPT ![t].jpc = "prepareSession", ![t].sid = call[t].sid]
     ELSE RunJobCatch(t)
  /\ UNCHANGED <<callbacks, effects, started, worker_closed>>

\* line 65 returns or throws; line 69 calls executeWithGovernance
RunJobPrepared(t) ==
  /\ job[t].kind = "runJob"
  /\ Awaited(t, "prepareSession", "prepareSession")
  /\ IF call[t].st = "ret"
     THEN /\ StartExecuteWithGovernance(t, job[t].sid)
          /\ job' = [job EXCEPT ![t].jpc = "executeWithGovernance"]
     ELSE RunJobCatch(t)
  /\ UNCHANGED <<callbacks, effects, started, worker_closed>>

\* line 69 returns; line 81 calls collectArtifacts
RunJobGoverned(t) ==
  /\ job[t].kind = "runJob"
  /\ Awaited(t, "executeWithGovernance", "executeWithGovernance")
  /\ StartCollectArtifacts(t, job[t].sid)
  /\ job' = [job EXCEPT ![t].jpc = "collectArtifacts",
                        ![t].exit_code = call[t].val,
                        ![t].status = JobStatus(call[t].val, call[t].sig)]
  /\ UNCHANGED <<callbacks, effects, started, worker_closed>>

\* line 81 returns or throws; lines 84-107 return the result
RunJobCollected(t) ==
  /\ job[t].kind = "runJob"
  /\ Awaited(t, "collectArtifacts", "collectArtifacts")
  /\ IF call[t].st = "ret"
     THEN /\ job' = [job EXCEPT ![t].jpc = "returned", ![t].stderr = <<"child stderr">>]
          /\ call' = [call EXCEPT ![t] = IdleFrame]
          /\ UNCHANGED <<session, next_session, dirs, disk_files, active_sessions,
                         notifications>>
     ELSE RunJobCatch(t)
  /\ UNCHANGED <<callbacks, effects, started, worker_closed>>

\* ---- runStreamingSession (streaming.ts lines 24-107) --------------------
\* The awaits of the broadcast helpers change nothing and are not separate
\* steps.  The session id is taken at line 35; the SessionContext of lines
\* 43-51 is represented from then on.

\* lines 29-40 up to the await of fs.mkdir(work_dir)
StreamStart(t) ==
  LET sid == next_session + 1
  IN /\ CanStart(t)
     /\ HasRoom
     /\ next_session' = sid
     /\ session' = [session EXCEPT ![sid] =
                      [NoSession EXCEPT !.alloc = TRUE, !.job_id = started + 1,
                                        !.mgr = "stream"]]
     /\ \E command \in JobCommands, files \in JobFiles :
          job' = [job EXCEPT ![t] =
                    [NewJob("runStreamingSession", "mkdir_work", command, files)
                     EXCEPT !.sid = sid]]
     /\ call' = [call EXCEPT ![t] = IdleFrame]
     /\ effects' = [effects EXCEPT ![t] = NoEffects]
     /\ started' = started + 1
     /\ UNCHANGED <<dirs, disk_files, active_sessions, notifications, callbacks,
                    worker_closed>>

\* line 40 completes; line 41 is issued
StreamMkdirWork(t) ==
  LET s == job[t].sid
  IN /\ job[t].kind = "runStreamingSession"
     /\ job[t].jpc = "mkdir_work"
     /\ \/ /\ dirs' = dirs \cup {<<s, "session">>, <<s, "work">>}
           /\ job' = [job EXCEPT ![t].jpc = "mkdir_output"]
           /\ effects' = [effects EXCEPT ![t].provisioned = TRUE]
        \/ /\ job' = [job EXCEPT ![t].jpc = "thrown", ![t].err = "mkdir"]
           /\ UNCHANGED <<dirs, effects>>
     /\ UNCHANGED <<session, next_session, disk_files, active_sessions,
                    notifications, callbacks, call, started, worker_closed>>

\* lines 64-73: the state is assigned directly and the child is spawned
StreamSpawn(j, sess, s) ==
  /\ session' = [sess EXCEPT ![s].state = "EXECUTING"]
  /\ job' = j

\* line 41 completes; lines 43-61 up to the first fs.writeFile, or lines
\* 64-73 when there is no file
StreamMkdirOutput(t) ==
  LET s == job[t].sid
  IN /\ job[t].kind = "runStreamingSession"
     /\ job[t].jpc = "mkdir_output"
     /\ \/ /\ dirs' = dirs \cup {<<s, "session">>, <<s, "output">>}
           /\ IF job[t].files = <<>>
              THEN StreamSpawn([job EXCEPT ![t].jpc = "exec"], session, s)
              ELSE /\ job' = [job EXCEPT ![t].jpc = "write", ![t].todo = job[t].files]
                   /\ UNCHANGED session
        \/ /\ job' = [job EXCEPT ![t].jpc = "thrown", ![t].err = "mkdir"]
           /\ UNCHANGED <<dirs, session>>
     /\ UNCHANGED <<next_session, disk_files, active_sessions, notifications,
                    callbacks, call, effects, started, worker_closed>>

\* line 61 completes for one file; a failure enters the catch block (lines
\* 97-103), which calls cleanupSession
StreamWrite(t) ==
  LET s == job[t].sid
      todo == job[t].todo
  IN /\ job[t].kind = "runStreamingSession"
     /\ job[t].jpc = "write"
     /\ \/ /\ CanWrite(BaseDir(s), Resolve(WorkDir(s), Head(todo).name))
           /\ disk_files' = WriteFile(Resolve(WorkDir(s), Head(todo).name),
                                      Head(todo).content, s)
           /\ IF Tail(todo) = <<>>
              THEN StreamSpawn([job EXCEPT ![t].jpc = "exec", ![t].todo = <<>>], session, s)
              ELSE /\ job' = [job EXCEPT ![t].todo = Tail(todo)]
                   /\ UNCHANGED session
        \/ /\ job' = [job EXCEPT ![t].jpc = "rm_work", ![t].err = "writeFile"]
           /\ UNCHANGED <<disk_files, session>>
     /\ UNCHANGED <<next_session, dirs, active_sessions, notifications,
                    callbacks, call, effects, started, worker_closed>>

\* lines 120-163: the child closes (resolve) or cannot be spawned (the
\* error event rejects); then cleanupSession is called (line 88 or 103)
StreamExec(t) ==
  LET s == job[t].sid
  IN /\ job[t].kind = "runStreamingSession"
     /\ job[t].jpc = "exec"
     /\ IF <<s, "work">> \in dirs
        THEN /\ \E code \in ExitCodes \cup {-1} :
                  job' = [job EXCEPT ![t].jpc = "rm_work", ![t].exit_code = code]
             /\ effects' = [effects EXCEPT ![t].spawned = TRUE]
        ELSE /\ job' = [job EXCEPT ![t].jpc = "rm_work", ![t].err = "spawn"]
             /\ UNCHANGED effects
     /\ UNCHANGED <<session, next_session, dirs, disk_files, active_sessions,
                    notifications, callbacks, call, started, worker_closed>>

\* cleanupSession returns (lines 247-262); the run returns or rethrows
StreamDone(j, t) ==
  [j EXCEPT ![t].jpc = IF j[t].err = "none" THEN "returned" ELSE "thrown"]

\* line 249 completes
StreamRmWork(t) ==
  LET s == job[t].sid
  IN /\ job[t].kind = "runStreamingSession"
     /\ job[t].jpc = "rm_work"
     /\ \/ /\ dirs' = dirs \ {<<s, "work">>}
           /\ disk_files' = RemoveTree(WorkDir(s), s)
           /\ job' = [job EXCEPT ![t].jpc = "rm_output"]
        \/ /\ <<s, "work">> \in dirs
           /\ job' = StreamDone(job, t)
           /\ UNCHANGED <<dirs, disk_files>>
     /\ UNCHANGED <<session, next_session, active_sessions, notifications,
                    callbacks, call, effects, started, worker_closed>>

\* line 250 completes
StreamRmOutput(t) ==
  LET s == job[t].sid
  IN /\ job[t].kind = "runStreamingSession"
     /\ job[t].jpc = "rm_output"
     /\ \/ /\ dirs' = dirs \ {<<s, "output">>}
           /\ disk_files' = RemoveTree(OutputDir(s), s)
           /\ job' = [job EXCEPT ![t].jpc = "rm_session"]
        \/ /\ <<s, "output">> \in dirs
           /\ job' = StreamDone(job, t)
           /\ UNCHANGED <<dirs, disk_files>>
     /\ UNCHANGED <<session, next_session, active_sessions,
                    notifications, callbacks, call, effects, started, worker_closed>>

\* line 253 completes; line 255
StreamRmSessionDir(t) ==
  LET s == job[t].sid
  IN /\ job[t].kind = "runStreamingSession"
     /\ job[t].jpc = "rm_session"
     /\ \/ /\ dirs' = {d \in dirs : d[1] # s}
           /\ disk_files' = RemoveTree(SessionDir(s), s)
           /\ session' = [session EXCEPT ![s].state = "DESTROYED"]
           /\ job' = StreamDone(job, t)
        \/ /\ <<s, "session">> \in dirs
           /\ job' = StreamDone(job, t)
           /\ UNCHANGED <<dirs, disk_files, session>>
     /\ UNCHANGED <<next_session, active_sessions, notifications, callbacks,
                    call, effects, started, worker_closed>>

\* ---- direct calls of the manager (part_003 testSessionLifecycle) --------

\* the sessions a caller of the shared manager can hold: returned by
\* createSession or listed by getActiveSessions
Known == {s \in Sids : session[s].alloc /\ session[s].mgr = "api" /\ session[s].state # "INIT"}

ApiJob(op) == [IdleJob EXCEPT !.kind = "api", !.jpc = op]

\* The callers are interchangeable: a new call is made by the first caller
\* that has no call in flight.
FirstFree(t) == \A u \in Callers : u < t => ~Finished(u)

ApiBegin(t, op) ==
  /\ CanCall(t)
  /\ FirstFree(t)
  /\ job' = [job EXCEPT ![t] = ApiJob(op)]
  /\ effects' = [effects EXCEPT ![t] = NoEffects]
  /\ started' = started + 1
  /\ UNCHANGED <<callbacks, worker_closed>>

ApiCreateSession(t) ==
  /\ HasRoom
  /\ ApiBegin(t, "createSession")
  /\ StartCreateSession(t, "api", started + 1)

ApiPrepareSession(t) ==
  /\ ApiBegin(t, "prepareSession")
  /\ \E s \in Known, files \in JobFiles : StartPrepareSession(t, s, files)

ApiExecuteCommand(t) ==
  /\ ApiBegin(t, "executeCommand")
  /\ \E s \in Known : StartExecuteCommand(t, s)

ApiCollectArtifacts(t) ==
  /\ ApiBegin(t, "collectArtifacts")
  /\ \E s \in Known : StartCollectArtifacts(t, s)

ApiDestroySession(t) ==
  /\ ApiBegin(t, "destroySession")
  /\ \E s \in Known : StartDestroySession(t, s, FALSE)

ApiDestroySessionSafe(t) ==
  /\ ApiBegin(t, "destroySessionSafe")
  /\ \E s \in Known : StartDestroySession(t, s, TRUE)

\* ---- direct calls with arbitrary files maps --------------------------------

\* testSessionLifecycle awaits every call before it makes the next one
FilesCaller == 1

FilesPrepareSession(t) ==
  /\ ApiBegin(t, "prepareSession")
  /\ \E s \in Known, files \in PrepareFiles : StartPrepareSession(t, s, files)

\* ---- LocalRemoteWorker.cleanup (test-remote.ts lines 127-134) -----------

RECURSIVE SortedSeq(_)
\* the elements of a set of numbers in increasing order
SortedSeq(S) ==
  IF S = {} THEN <<>>
  ELSE LET m == CHOOSE x \in S : \A y \in S : x <= y
       IN <<m>> \o SortedSeq(S \ {m})

WorkerSessions == {s \in Sids : session[s].alloc /\ session[s].mgr = "worker"}

\* getActiveSessions() of the worker's manager (lifecycle.ts lines 227-229)
getActiveSessions == SortedSeq(active_sessions \cap WorkerSessions)

\* the loop of lines 130-132 calls destroySessionSafe for the next session,
\* or line 133 issues fs.rm(testDir)
CleanupLoop(t, todo) ==
  IF todo = <<>>
  THEN /\ job' = [job EXCEPT ![t] = [ApiJob("rm_testDir") EXCEPT !.kind = "cleanup"]]
       /\ call' = [call EXCEPT ![t] = IdleFrame]
       /\ UNCHANGED <<session, next_session, dirs, disk_files, active_sessions,
                      notifications>>
  ELSE /\ job' = [job EXCEPT ![t] = [ApiJob("loop") EXCEPT !.kind = "cleanup",
                                                          !.todo = Tail(todo)]]
       /\ StartDestroySession(t, Head(todo), TRUE)

\* the test harness calls cleanup after every runJob has returned
CleanupStart(t) ==
  /\ Finished(t)
  /\ ~worker_closed
  /\ \A u \in Threads : job[u].kind = "runJob" => job[u].jpc = "returned"
  /\ worker_closed' = TRUE
  /\ started' = started
  /\ effects' = [effects EXCEPT ![t] = NoEffects]
  /\ CleanupLoop(t, getActiveSessions)
  /\ UNCHANGED callbacks

\* line 131 returns
CleanupNext(t) ==
  /\ job[t].kind = "cleanup"
  /\ job[t].jpc = "loop"
  /\ call[t].st # "run"
  /\ started' = started
  /\ CleanupLoop(t, job[t].todo)
  /\ UNCHANGED <<callbacks, effects, worker_closed>>

\* line 133 completes: everything under testDir is removed, or fs.rm
\* rejects and cleanup throws
CleanupRmTestDir(t) ==
  /\ job[t].kind = "cleanup"
  /\ job[t].jpc = "rm_testDir"
  /\ \/ /\ dirs' = {d \in dirs : d[1] \notin WorkerSessions}
        /\ disk_files' = {f \in disk_files :
                            ~(f.root = "testDir-remote" /\ InBaseDir(f.path))}
        /\ job' = [job EXCEPT ![t].jpc = "returned"]
     \/ /\ \E d \in dirs : d[1] \in WorkerSessions
        /\ job' = [job EXCEPT ![t].jpc = "thrown", ![t].err = "rm"]
        /\ UNCHANGED <<dirs, disk_files>>
  /\ UNCHANGED <<session, next_session, active_sessions, notifications,
                 callbacks, call, effects, started, worker_closed>>

(***************************************************************************)
(* The resource governor (src/src/security/allowlist.ts, lines 158-339).   *)
(* One ResourceGovernor object, the timers of the event loop, the clock    *)
(* and the process group it governs.  The clock advances by one sampling   *)
(* interval at a time and every live interval timer fires at each advance. *)
(***************************************************************************)

\* line 167
MEMORY_SAMPLE_INTERVAL_MS == 100

\* sampling intervals the clock runs for
MaxTicks == 2
\* calls of startGovernance on the governor
MaxGoverned == 2
\* bytes reported by one trackOutput call
MaxChunk == 2
\* processes in the governed process group
MaxProcs == 2

VARIABLES
  gov,   \* the fields of the ResourceGovernor object
  os     \* the clock, the live interval timers, the process group, the
         \* kill commands run and whether the last one found a process,
         \* the caller's abort signal, the bytes reported

gvars == <<gov, os>>

vars == <<vvars, svars, gvars, mvars>>

\* the limits the governor is constructed with
LimitsChoices ==
  [cpu : {2}, memory_mb : {2}, timeout_ms : {100, 150}, max_output_bytes : {3}]

\* resident set sizes in KB, as ps prints them
RssKb == {1024, 3072}

\* the process groups: the rss of each process, in the order ps lists them
Groups == UNION { [1..n -> RssKb] : n \in 1..MaxProcs }

NoReason == [reason |-> "undefined", value |-> 0]

\* lines 177-183: the limits of a governor constructed without arguments
DefaultLimits ==
  [cpu |-> 2, memory_mb |-> 2048, timeout_ms |-> 300000,
   max_output_bytes |-> 10 * 1024 * 1024]

\* lines 171-193: the fields of a new governor
NewGovernor(limits) ==
  [limits |-> limits, is_governed |-> FALSE, start_time |-> 0,
   memory_samples |-> <<>>, output_bytes |-> 0, killed |-> FALSE,
   kill_reason |-> NoReason, process_group_id |-> "null",
   abort_controller |-> "null", monitoring_interval |-> 0]

\* what a call of executeWithGovernance did: the process group spawnSync
\* ran, for how long, and the ExecutionResult
NotExecuted ==
  [done |-> FALSE, group |-> <<>>, duration_ms |-> 0, exit_code |-> 0,
   signal |-> "undefined", stdout |-> 0, stderr |-> 0]

\* no timer is set and no process group runs
OsInit ==
  os = [now |-> 0, timers |-> {}, next_timer |-> 1, group |-> <<>>,
        kill_calls |-> 0, kill_found |-> FALSE, abort_signal |-> "none",
        reported |-> 0, governed |-> 0, executed |-> NotExecuted]

GInit == gov = NewGovernor(DefaultLimits) /\ OsInit

St(g, o) == [gov |-> g, os |-> o]

\* lines 316-321
stopMonitoring(st) ==
  IF st.gov.monitoring_interval # 0
  THEN St([st.gov EXCEPT !.monitoring_interval = 0],
          [st.os EXCEPT !.timers = @ \ {st.gov.monitoring_interval}])
  ELSE st

\* lines 296-313 without the test of killed
killProcess_Again(st, reason, value) ==
  LET marked == St([st.gov EXCEPT !.killed = TRUE,
                                    !.kill_reason = [reason |-> reason, value |-> value]],
                   st.os)
      stopped == stopMonitoring(marked)
      sent == IF stopped.gov.process_group_id # "null"
              THEN St(stopped.gov,
                      [stopped.os EXCEPT !.kill_calls = @ + 1,
                                         !.kill_found = stopped.os.group # <<>>,
                                         !.group = <<>>])
              ELSE stopped
  IN St([sent.gov EXCEPT !.abort_controller = IF @ = "null" THEN @ ELSE "aborted"],
        sent.os)

\* lines 285-314: kill -9 of the process group ends every process of it; an
\* error of the kill command is caught
killProcess(st, reason, value) ==
  IF st.gov.killed THEN st ELSE killProcess_Again(st, reason, value)

\* parseInt(text, 10) of the trimmed output of ps: the digits at the start
\* of the text, which are the first line
ParseInt(lines) == lines[1]

\* the total resident memory of a process group, in KB
RECURSIVE TotalKb(_)
TotalKb(group) == IF group = <<>> THEN 0 ELSE Head(group) + TotalKb(Tail(group))

\* lines 249-267: ps fails when the group has no process; the error is caught
checkMemory(st) ==
  IF st.gov.process_group_id = "null" \/ st.os.group = <<>>
  THEN st
  ELSE LET memory_mb == ParseInt(st.os.group) \div 1024
           sampled == St([st.gov EXCEPT !.memory_samples = Append(@, memory_mb)], st.os)
       IN IF memory_mb > st.gov.limits.memory_mb
          THEN killProcess(sampled, "memory_limit_exceeded", memory_mb)
          ELSE sampled

\* a check that never kills
checkTimeout_Never(st) == st

\* lines 269-275
checkTimeout(st) ==
  LET elapsed_ms == st.os.now - st.gov.start_time
  IN IF elapsed_ms > st.gov.limits.timeout_ms
     THEN killProcess(st, "timeout", elapsed_ms)
     ELSE st

\* a tick that ends when the process table cannot be read
checkResources_StopsOnFailure(st) ==
  IF st.gov.killed \/ st.gov.process_group_id = "null" \/ st.os.group = <<>>
  THEN st
  ELSE checkTimeout(checkMemory(st))

\* lines 234-247
checkResources(st) ==
  IF st.gov.killed \/ st.gov.process_group_id = "null"
  THEN st
  ELSE checkTimeout(checkMemory(st))

\* the callbacks of the interval timers ids, run in the order of their
\* creation; a timer cleared by an earlier callback does not fire
RECURSIVE RunTimers(_, _)
RunTimers(ids, st) ==
  IF ids = <<>> THEN st
  ELSE RunTimers(Tail(ids),
                 IF Head(ids) \in st.os.timers THEN checkResources(st) ELSE st)

\* MEMORY_SAMPLE_INTERVAL_MS pass and the interval timers fire
GovTick ==
  /\ os.now < MaxTicks * MEMORY_SAMPLE_INTERVAL_MS
  /\ LET later == St(gov, [os EXCEPT !.now = @ + MEMORY_SAMPLE_INTERVAL_MS])
         after == RunTimers(SortedSeq(os.timers), later)
     IN gov' = after.gov /\ os' = after.os

\* lines 204-232: startGovernance(process_group_id, abort_signal?)
startGovernance(st, process_group_id, with_signal) ==
  St([st.gov EXCEPT !.process_group_id = process_group_id,
                    !.start_time = st.os.now,
                    !.is_governed = TRUE,
                    !.killed = FALSE,
                    !.abort_controller = "fresh",
                    !.monitoring_interval = st.os.next_timer],
     [st.os EXCEPT !.timers = @ \cup {st.os.next_timer},
                   !.next_timer = @ + 1,
                   !.abort_signal = IF with_signal THEN "listening" ELSE "none",
                   !.governed = @ + 1])

\* startGovernance for a process group that has just been spawned; the
\* governor executeWithGovernance builds (line 350) is local to that call
\* and receives no other call
GovStartGovernance ==
  /\ os.governed < MaxGoverned
  /\ ~os.executed.done
  /\ \E group \in Groups, with_signal \in BOOLEAN :
       LET after == startGovernance(St(gov, [os EXCEPT !.group = group]),
                                    "pgid", with_signal)
       IN gov' = after.gov /\ os' = after.os

\* the count is replaced by the bytes of the last call
GovTrackOutput_Assign(bytes) ==
  /\ gov.is_governed
  /\ gov.output_bytes <= gov.limits.max_output_bytes
  /\ LET counted == St([gov EXCEPT !.output_bytes = bytes],
                       [os EXCEPT !.reported = @ + bytes])
         after == IF counted.gov.output_bytes > gov.limits.max_output_bytes
                  THEN killProcess(counted, "output_limit_exceeded", counted.gov.output_bytes)
                  ELSE counted
     IN gov' = after.gov /\ os' = after.os

\* lines 277-283, called while an execution is governed
GovTrackOutput(bytes) ==
  /\ gov.is_governed
  /\ gov.output_bytes <= gov.limits.max_output_bytes
  /\ LET counted == St([gov EXCEPT !.output_bytes = @ + bytes],
                       [os EXCEPT !.reported = @ + bytes])
         after == IF counted.gov.output_bytes > gov.limits.max_output_bytes
                  THEN killProcess(counted, "output_limit_exceeded", counted.gov.output_bytes)
                  ELSE counted
     IN gov' = after.gov /\ os' = after.os

\* a direct call killProcess("test_kill", 42), as part_003 lines 181-186
GovKillProcess ==
  /\ gov.is_governed
  /\ LET after == killProcess(St(gov, os), "test_kill", 42)
     IN gov' = after.gov /\ os' = after.os

\* lines 323-327
stop(st) ==
  LET stopped == stopMonitoring(st)
  IN St([stopped.gov EXCEPT !.is_governed = FALSE, !.killed = FALSE], stopped.os)

GovStop ==
  /\ gov.is_governed
  /\ LET after == stop(St(gov, os))
     IN gov' = after.gov /\ os' = after.os

\* the time spawnSync can take: the child exits by itself within timeout_ms
\* or is ended by the timeout option at timeout_ms
Durations(limits) ==
  {d \in {k * MEMORY_SAMPLE_INTERVAL_MS : k \in 0..MaxTicks} : d <= limits.timeout_ms}
    \cup {limits.timeout_ms}

\* the bytes a child can write to one of its output streams
Written(limits) == {0, limits.max_output_bytes, limits.max_output_bytes + 1}

\* what spawnSync keeps of a stream under its maxBuffer option (line 361),
\* which bounds stdout and stderr each: the output is truncated
Captured(limits, written) ==
  IF written > limits.max_output_bytes THEN limits.max_output_bytes ELSE written

\* the results of spawnSync after duration_ms for a child that wrote out
\* and err bytes: status and signal; a stream above maxBuffer and the
\* timeout end the child with SIGTERM
SpawnResults(limits, duration_ms, out, err) ==
  IF out > limits.max_output_bytes \/ err > limits.max_output_bytes
  THEN {[exit_code |-> -1, signal |-> "SIGTERM"]}
  ELSE {[exit_code |-> code, signal |-> "undefined"] : code \in ExitCodes}
         \cup (IF duration_ms = limits.timeout_ms
               THEN {[exit_code |-> -1, signal |-> "SIGTERM"]}
               ELSE {})

\* lines 350-374 of executeWithGovernance, which builds a governor of its
\* own: startGovernance(process.pid), then spawnSync, which returns when the
\* child has ended and lets no timer callback run before, then stop()
GovExecuteWithGovernance ==
  /\ os.governed = 0
  /\ \E group \in Groups, duration_ms \in Durations(gov.limits),
        out \in Written(gov.limits), err \in Written(gov.limits) :
       \E result \in SpawnResults(gov.limits, duration_ms, out, err) :
         LET governing == startGovernance(St(gov, os), "process.pid", FALSE)
             blocked == St(governing.gov,
                           [governing.os EXCEPT
                              !.now = @ + duration_ms,
                              !.executed = [done |-> TRUE, group |-> group,
                                            duration_ms |-> duration_ms,
                                            exit_code |-> result.exit_code,
                                            signal |-> result.signal,
                                            stdout |-> Captured(gov.limits, out),
                                            stderr |-> Captured(gov.limits, err)]])
             after == stop(blocked)
         IN gov' = after.gov /\ os' = after.os

\* the abort signal handed to startGovernance fires: its listener (lines
\* 214-218) aborts the governor's own controller
GovAbortSignal ==
  /\ os.abort_signal = "listening"
  /\ os' = [os EXCEPT !.abort_signal = "fired"]
  /\ gov' = [gov EXCEPT !.abort_controller = IF @ = "null" THEN @ ELSE "aborted"]

\* the processes of the group exit by themselves
GovProcessExit ==
  /\ os.group # <<>>
  /\ os' = [os EXCEPT !.group = <<>>]
  /\ UNCHANGED gov

NextGovernor ==
  /\ \/ GovStartGovernance
     \/ GovTick
     \/ \E bytes \in 1..MaxChunk : GovTrackOutput(bytes)
     \/ GovKillProcess
     \/ GovStop
     \/ GovAbortSignal
     \/ GovProcessExit
     \/ GovExecuteWithGovernance
  /\ UNCHANGED <<vvars, svars, mvars>>

(***************************************************************************)
(* The specifications                                                      *)
(***************************************************************************)

SInit ==
  /\ session = [s \in Sids |-> NoSession]
  /\ next_session = 0
  /\ dirs = {}
  /\ disk_files = {}
  /\ active_sessions = {}
  /\ notifications = [s \in Sids |-> <<>>]
  /\ call = [t \in Threads |-> IdleFrame]
  /\ job = [t \in Threads |-> IdleJob]
  /\ effects = [t \in Threads |-> NoEffects]
  /\ started = 0
  /\ worker_closed = FALSE

\* the entry points construct their managers without callbacks
Init == VInit /\ MInit /\ SInit /\ GInit /\ callbacks = "none"

\* the shared manager is constructed without onStateChange, with one that
\* returns, or with one that may throw
InitApi == VInit /\ MInit /\ SInit /\ GInit /\ callbacks \in {"none", "set", "throws"}

CreateStep(t) == CreateMkdirWork(t) \/ CreateMkdirOutput(t)

DestroyStep(t) == DestroyRmWork(t) \/ DestroyRmOutput(t) \/ DestroyRmSessionDir(t)

RslStep(t) ==
  \/ RslStart(t)
  \/ RslInitialize(t)
  \/ RslCreated(t)
  \/ RslPrepared(t)
  \/ RslExecuted(t)
  \/ RslCollected(t)
  \/ RslFinally(t)

RunJobStep(t) ==
  \/ RunJobStart(t)
  \/ RunJobCreated(t)
  \/ RunJobPrepared(t)
  \/ RunJobGoverned(t)
  \/ RunJobCollected(t)

StreamStep(t) ==
  \/ StreamStart(t)
  \/ StreamMkdirWork(t)
  \/ StreamMkdirOutput(t)
  \/ StreamWrite(t)
  \/ StreamExec(t)
  \/ StreamRmWork(t)
  \/ StreamRmOutput(t)
  \/ StreamRmSessionDir(t)

ApiStep(t) ==
  \/ ApiCreateSession(t)
  \/ ApiPrepareSession(t)
  \/ ApiExecuteCommand(t)
  \/ ApiCollectArtifacts(t)
  \/ ApiDestroySession(t)
  \/ ApiDestroySessionSafe(t)

CleanupStep(t) ==
  \/ CleanupStart(t)
  \/ CleanupNext(t)
  \/ CleanupRmTestDir(t)

\* the jobs: the three entry points and the worker's cleanup
Next ==
  /\ \E t \in Workers :
        \/ CreateStep(t)
        \/ PrepareWrite(t)
        \/ ExecSync(t)
        \/ SpawnSync(t)
        \/ CollectReaddir(t)
        \/ DestroyStep(t)
        \/ RslStep(t)
        \/ RunJobStep(t)
        \/ StreamStep(t)
        \/ CleanupStep(t)
  /\ UNCHANGED <<vvars, gvars, mvars>>

Spec == Init /\ [][Next]_vars

\* callers of the methods of one shared manager
NextApi ==
  /\ \E t \in Callers :
        \/ CreateStep(t)
        \/ PrepareWrite(t)
        \/ ExecSync(t)
        \/ CollectReaddir(t)
        \/ DestroyStep(t)
        \/ ApiStep(t)
  /\ UNCHANGED <<vvars, gvars, mvars>>

SpecApi == InitApi /\ [][NextApi]_vars

\* the same callers when onStateChange, if set, always returns
InitApiReturning == InitApi /\ callbacks # "throws"

SpecApiReturning == InitApiReturning /\ [][NextApi]_vars

FilesStep(t) ==
  \/ ApiCreateSession(t)
  \/ FilesPrepareSession(t)
  \/ ApiExecuteCommand(t)
  \/ ApiCollectArtifacts(t)
  \/ ApiDestroySession(t)

\* callers that hand prepareSession arbitrary files maps and whose commands
\* may leave entries in output_dir
NextFiles ==
  /\ \E t \in {FilesCaller} :
        \/ CreateStep(t)
        \/ PrepareWrite(t)
        \/ ExecSyncWith(t, ChildOutputs)
        \/ CollectReaddir(t)
        \/ DestroyStep(t)
        \/ FilesStep(t)
  /\ UNCHANGED <<vvars, gvars, mvars>>

\* the manager of these callers has no onStateChange, or one that may throw
InitFiles == InitApi /\ callbacks # "set"

SpecFiles == InitFiles /\ [][NextFiles]_vars

SpecValidate == Init /\ [][VNext /\ UNCHANGED <<svars, gvars, mvars>>]_vars

SpecSanitize == Init /\ [][NextSanitize /\ UNCHANGED <<svars, gvars, mvars>>]_vars

NextMemory == MNext /\ UNCHANGED <<vvars, svars, gvars>>

SpecMemory == Init /\ [][NextMemory]_vars

\* a governor constructed with limits small enough to be reached
InitGovernor ==
  /\ VInit /\ MInit /\ SInit /\ callbacks = "none"
  /\ OsInit
  /\ \E limits \in LimitsChoices : gov = NewGovernor(limits)

SpecGovernor == InitGovernor /\ [][NextGovernor]_vars

(***************************************************************************)
(* Properties                                                              *)
(***************************************************************************)

\* a run of an entry point that calls createSession has ended
RunEnded(t) ==
  /\ job[t].kind \in {"runSessionLifecycle", "runJob"}
  /\ job[t].jpc \in {"returned", "thrown"}

\* C1: every session that createSession has returned to a job run is in
\* state DESTROYED once that run has returned or thrown.
C1_DestroyedBeforeReturn ==
  \A t \in Threads :
    (RunEnded(t) /\ job[t].sid # 0) => session[job[t].sid].state = "DESTROYED"

\* C2: a run creates a session directory or spawns a command only after
\* validateCommand has returned allowed=true for its command.
C2_ValidateFirst ==
  \A t \in Threads :
    (effects[t].provisioned \/ effects[t].spawned) => effects[t].validated

\* the run of thread t had its command rejected by validateCommand
RejectedRun(t) == job[t].kind = "runJob" /\ job[t].validation.reason # <<>>

\* C3: a run whose command validateCommand rejects returns status "failed",
\* exit_code -1 and the rejection reason in stderr, and has created no
\* session, no directory and no process.
C3_RejectedRunFails ==
  \A t \in Threads :
    RejectedRun(t) =>
      /\ job[t].jpc = "returned"
      /\ job[t].status = "failed"
      /\ job[t].exit_code = -1
      /\ Len(job[t].stderr) = 3
      /\ <<job[t].stderr[2], job[t].stderr[3]>> = validateCommand(job[t].command).reason
      /\ job[t].sid = 0
      /\ ~effects[t].provisioned
      /\ ~effects[t].registered
      /\ ~effects[t].spawned

C3_Witness ==
  \E t \in Threads :
    /\ RejectedRun(t)
    /\ job[t].jpc = "returned"
    /\ job[t].stderr[2] = "Dangerous pattern detected: "

\* the command validateCommand works on, and whether it was applied
Validated == vresult # NoResult

Trimmed == Trim(vcommand)

MatchesDangerous(s) == \E i \in 1..Len(DANGEROUS_PATTERNS) : Test(DANGEROUS_PATTERNS[i], s)

MatchesTemplate(s) == \E i \in 1..Len(ALLOWED_PATTERNS) : Test(ALLOWED_PATTERNS[i], s)

\* the first whitespace-delimited token of s (s without leading whitespace)
FirstToken(s) ==
  LET n == CHOOSE k \in 0..Len(s) :
             /\ \A i \in 1..k : s[i] \notin Whitespace
             /\ k = Len(s) \/ s[k + 1] \in Whitespace
  IN SubSeq(s, 1, n)

\* C4: a command whose trimmed text matches a dangerous pattern is
\* rejected, whether or not its base token or a template allows it.
C4_DenylistPrecedence ==
  (Validated /\ MatchesDangerous(Trimmed)) => ~vresult.allowed

\* "git log; rm -rf /" has been validated: git is allowlisted and the
\* command matches the git template and the rm -rf / pattern
C4_Witness ==
  /\ Validated
  /\ vfrags = 3
  /\ FirstToken(Trimmed) = <<"g", "i", "t">>
  /\ FirstToken(Trimmed) \in ALLOWED_COMMANDS
  /\ MatchesTemplate(Trimmed)
  /\ Test(DANGEROUS_PATTERNS[1], Trimmed)
  /\ ~vresult.allowed

\* the command is outside the allowlist: base token and templates
Unlisted ==
  /\ FirstToken(Trimmed) \notin ALLOWED_COMMANDS
  /\ ~MatchesTemplate(Trimmed)

\* the reason of the result names the token tok
ReasonNames(tok) == Len(vresult.reason) = 2 /\ vresult.reason[2] = tok

\* C5 as stated: a command outside the allowlist is rejected with a reason
\* naming its base token.
C5_UnlistedNamesBase ==
  (Validated /\ Unlisted) => (~vresult.allowed /\ ReasonNames(FirstToken(Trimmed)))

\* C5 as amended: a command outside the allowlist is rejected; the reason
\* names its base token when the trimmed command matches no dangerous
\* pattern, and names the first matching dangerous pattern otherwise.
C5_UnlistedRejected ==
  (Validated /\ Unlisted) =>
    /\ ~vresult.allowed
    /\ ~MatchesDangerous(Trimmed) => ReasonNames(FirstToken(Trimmed))
    /\ MatchesDangerous(Trimmed) =>
         \E i \in 1..Len(DANGEROUS_PATTERNS) :
           /\ Test(DANGEROUS_PATTERNS[i], Trimmed)
           /\ \A j \in 1..(i - 1) : ~Test(DANGEROUS_PATTERNS[j], Trimmed)
           /\ vresult.reason = <<"Dangerous pattern detected: ", DANGEROUS_SOURCES[i]>>

\* an unlisted command of several tokens without a dangerous pattern has
\* been rejected
C5_Witness ==
  /\ Validated
  /\ Unlisted
  /\ ~MatchesDangerous(Trimmed)
  /\ Len(Split(Trimmed)) > 1
  /\ vresult.reason = <<"Command not in allowlist: ", <<"f", "o", "o">>>>

\* the call of op by thread t returns in this step
ReturnsNow(t, op) ==
  /\ call'[t].op = op
  /\ call'[t].st = "ret"
  /\ call[t].st = "run" \/ job'[t] # job[t]

\* the call of op by thread t is made in this step
CalledNow(t, op) ==
  /\ job'[t] # job[t]
  /\ job'[t].kind = "api"
  /\ job'[t].jpc = op

DirsAbsent(s) == <<s, "work">> \notin dirs /\ <<s, "output">> \notin dirs

\* C6: a session in state DESTROYED is not in the active-session registry
\* and its work and output directories do not exist.
C6_DestroyedIsGone ==
  \A s \in Sids :
    (session[s].alloc /\ session[s].state = "DESTROYED") =>
      (s \notin active_sessions /\ DirsAbsent(s))

\* the fs.rm a destroySession call of thread t awaits fails in this step:
\* the call ends its removals although the directory is still there
RemovalFails(t) ==
  /\ call[t].op = "destroySession"
  /\ call[t].st = "run"
  /\ call'[t] # call[t]
  /\ \/ call[t].pc = "rm_work" /\ <<call[t].sid, "work">> \in dirs'
     \/ call[t].pc = "rm_output" /\ <<call[t].sid, "output">> \in dirs'
     \/ call[t].pc = "rm_session" /\ <<call[t].sid, "session">> \in dirs'

\* C7: when destroySession returns the state is DESTROYED; a failed
\* directory removal is recorded in session.error and the call returns
\* instead of throwing.
C7_DestroyAlwaysDestroyed ==
  [][\A t \in Threads :
       /\ ReturnsNow(t, "destroySession") =>
            session'[call'[t].sid].state = "DESTROYED"
       /\ RemovalFails(t) =>
            /\ call'[t].st = "ret"
            /\ session'[call[t].sid].error
            /\ session'[call[t].sid].state = "DESTROYED"]_vars

\* a destroySession call has returned after a failed removal
C7_Witness ==
  \E t \in Threads :
    /\ call[t].op = "destroySession"
    /\ call[t].st = "ret"
    /\ session[call[t].sid].error
    /\ session[call[t].sid].state = "DESTROYED"
    /\ <<call[t].sid, "session">> \in dirs

\* C8: destroySessionSafe never throws, and the state is DESTROYED when it
\* returns.
C8_SafeNeverThrows ==
  [][\A t \in Threads :
       /\ call'[t].op = "destroySessionSafe" => call'[t].st # "throw"
       /\ ReturnsNow(t, "destroySessionSafe") =>
            session'[call'[t].sid].state = "DESTROYED"]_vars

\* destroySessionSafe has returned after the callback threw in
\* destroySession: nothing was removed and no error was recorded
C8_Witness ==
  \E t \in Threads :
    /\ call[t].op = "destroySessionSafe"
    /\ call[t].st = "ret"
    /\ callbacks = "throws"
    /\ session[call[t].sid].state = "DESTROYED"
    /\ ~session[call[t].sid].error
    /\ call[t].sid \in active_sessions
    /\ Len(notifications[call[t].sid]) > 1

\* two callers have each called destroySession on the same session and
\* both calls are over
DestroyedTwice(t, u) ==
  /\ t # u
  /\ call[t].op = "destroySession" /\ call[u].op = "destroySession"
  /\ call[t].sid = call[u].sid
  /\ call[t].st # "run" /\ call[u].st # "run"

\* C9: a second destroySession on a session, after or during the first,
\* raises no error and leaves the session DESTROYED, unregistered and
\* without directories; a call made when the state is DESTROYED does no
\* filesystem operation and fires no notification.
C9_DestroyIdempotent ==
  /\ [](\A t, u \in Threads :
          DestroyedTwice(t, u) =>
            /\ call[t].st = "ret" /\ call[u].st = "ret"
            /\ session[call[t].sid].state = "DESTROYED"
            /\ call[t].sid \notin active_sessions
            /\ DirsAbsent(call[t].sid)
            /\ <<call[t].sid, "session">> \notin dirs)
  /\ [][\A t \in Threads :
          (CalledNow(t, "destroySession") /\ session[call'[t].sid].state = "DESTROYED") =>
            /\ call'[t].st = "ret"
            /\ dirs' = dirs
            /\ notifications' = notifications]_vars

C11_FailedCreateLeavesNothing ==
  \A t \in Threads :
    (call[t].op = "createSession" /\ call[t].st = "throw" /\ call[t].err = "mkdir") =>
      \A d \in dirs : d[1] # call[t].sid

WorkFiles(s) == {f \in disk_files : f.root = BaseDir(s) /\ Under(f.path, WorkDir(s))}

\* a filename one of whose segments is ".."
HasDotDot(name) == \E k \in 1..Len(name) : name[k] = ".."

\* C13: when prepareSession(session, files) has returned and no filename
\* of files has a ".." segment, each of the N entries of files is a file
\* of its own under work_dir and that file holds the content given for it.
C13_PreparedFiles ==
  \A t \in Threads :
    (/\ call[t].op = "prepareSession" /\ call[t].st = "ret"
     /\ \A i \in 1..Len(call[t].given) : ~HasDotDot(call[t].given[i].name)) =>
      LET s == call[t].sid
          given == call[t].given
          written == {Resolve(WorkDir(s), given[i].name) : i \in 1..Len(given)}
      IN /\ Cardinality(written) = Len(given)
         /\ \A i \in 1..Len(given) :
              \E f \in WorkFiles(s) :
                /\ f.path = Resolve(WorkDir(s), given[i].name)
                /\ f.content = given[i].content

\* C14: every file written from a files map lies under the work_dir of the
\* session it was written for.
C14_WritesInsideWorkDir ==
  \A f \in disk_files : f.via = "files" => Under(f.path, WorkDir(f.by))

\* C15 as stated: collectArtifacts never throws.
C15_NeverThrows ==
  \A t \in Threads : call[t].op = "collectArtifacts" => call[t].st # "throw"

\* C15: collectArtifacts throws only what the onStateChange callback of its
\* state transition throws; when it returns, the list is empty if output_dir
\* is missing, and otherwise it is empty (the directory could not be read) or
\* holds every entry under output_dir.
C15_CollectBestEffort ==
  \A t \in Threads :
    call[t].op = "collectArtifacts" =>
      LET s == call[t].sid
      IN /\ call[t].st = "throw" => (call[t].err = "callback" /\ callbacks = "throws")
         /\ (call[t].st = "ret" /\ <<s, "output">> \notin dirs) => call[t].artifacts = {}
         /\ (call[t].st = "ret" /\ <<s, "output">> \in dirs) =>
              call[t].artifacts \in {{}, Readdir(BaseDir(s), OutputDir(s))}

\* collectArtifacts has returned the empty list for a session whose
\* output_dir is gone
C15_Witness ==
  \E t \in Threads :
    /\ call[t].op = "collectArtifacts" /\ call[t].st = "ret"
    /\ <<call[t].sid, "output">> \notin dirs
    /\ call[t].artifacts = {}

\* C16: a killProcess call made while killed is set, be it the direct call,
\* the one of trackOutput or the one of a sampling tick, leaves kill_reason
\* and killed as they are and runs no kill command.
C16_KillIdempotent ==
  [][(gov.killed /\ (GovKillProcess \/ GovTick \/ \E bytes \in 1..MaxChunk : GovTrackOutput(bytes)))
       => (gov'.killed /\ gov'.kill_reason = gov.kill_reason
           /\ os'.kill_calls = os.kill_calls)]_vars

\* in the first governed execution the direct kill came first and a later
\* trackOutput has taken the total over the limit: the first reason stands
\* and one kill command has been run
C16_Witness ==
  /\ gov.is_governed /\ os.governed = 1 /\ gov.killed
  /\ gov.kill_reason = [reason |-> "test_kill", value |-> 42]
  /\ gov.output_bytes > gov.limits.max_output_bytes
  /\ os.kill_calls = 1

C18_MemoryBreachKills ==
  [][(/\ GovTick
      /\ gov.is_governed /\ ~gov.killed
      /\ gov.monitoring_interval \in os.timers
      /\ TotalKb(os.group) > gov.limits.memory_mb * 1024)
       => (gov'.killed /\ gov'.kill_reason.reason = "memory_limit_exceeded")]_vars

\* C19: output_bytes is the sum of the byte counts reported to trackOutput,
\* and a trackOutput call that leaves the total above max_output_bytes
\* leaves killed set; if the governor was not killed before that call, the
\* reason is "output_limit_exceeded" with the total.
C19_OutputLimit ==
  [][/\ gov'.output_bytes = os'.reported
     /\ \A bytes \in 1..MaxChunk :
          (GovTrackOutput(bytes) /\ gov'.output_bytes > gov'.limits.max_output_bytes) =>
            /\ gov'.killed
            /\ ~gov.killed =>
                 gov'.kill_reason = [reason |-> "output_limit_exceeded",
                                     value |-> gov.output_bytes + bytes]]_vars

\* the reported bytes have gone over the limit and the governor has killed
\* the running group for it
C19_Witness ==
  /\ gov.is_governed /\ gov.killed
  /\ gov.output_bytes > gov.limits.max_output_bytes
  /\ gov.output_bytes = os.reported
  /\ gov.kill_reason = [reason |-> "output_limit_exceeded", value |-> gov.output_bytes]
  /\ os.kill_calls = 1 /\ os.kill_found

\* C20: once the abort signal handed to startGovernance has fired during a
\* governed execution, the governor is killed with a recorded reason, its
\* sampling timer is cleared and a kill command has been run.
C20_AbortKills ==
  (gov.is_governed /\ os.abort_signal = "fired") =>
    /\ gov.killed
    /\ gov.kill_reason # NoReason
    /\ gov.monitoring_interval = 0
    /\ os.kill_calls > 0

\* C21: when executeWithGovernance has run a command for more than one
\* sampling interval while the first process of its group held more than
\* memory_mb, a sampling tick has seen the breach before the command
\* finished: a sample is recorded and the kill reason is
\* memory_limit_exceeded.
C21_TicksWhileWaiting ==
  ( /\ os.executed.done
    /\ os.executed.duration_ms > MEMORY_SAMPLE_INTERVAL_MS
    /\ ParseInt(os.executed.group) \div 1024 > gov.limits.memory_mb ) =>
    /\ gov.memory_samples # <<>>
    /\ gov.kill_reason.reason = "memory_limit_exceeded"

\* C22: the process group a governor is handed is the group of a spawned
\* child, never the worker's own process id.
C22_GovernsChildGroup ==
  gov.process_group_id \in {"null", "pgid"}

\* C23: a result runJob returns for a command it has run has status
\* "finished" iff the exit code is 0 and the termination was not forced,
\* "failed" iff the exit code is not 0 and the termination was not forced,
\* and "timeout" iff the worker forced the termination.
C23_StatusFromOutcome ==
  \A t \in Threads :
    (job[t].kind = "runJob" /\ job[t].jpc = "returned" /\ effects[t].spawned) =>
      /\ job[t].status = "finished" <=> (job[t].exit_code = 0 /\ ~effects[t].forced)
      /\ job[t].status = "failed" <=> (job[t].exit_code # 0 /\ ~effects[t].forced)
      /\ job[t].status = "timeout" <=> effects[t].forced

\* a job run has ended after an exception was raised once its session was
\* created: runJob's catch block built the result, or
\* runSessionLifecycle / runStreamingSession had an error pending
RaisedAfterCreation(t) ==
  /\ job[t].jpc \in {"returned", "thrown"}
  /\ job[t].sid # 0
  /\ \/ /\ job[t].kind = "runJob"
        /\ Len(job[t].stderr) = 2
        /\ job[t].stderr[1] = "Error: "
     \/ /\ job[t].kind = "runSessionLifecycle"
        /\ job[t].err # "none"
     \/ /\ job[t].kind = "runStreamingSession"
        /\ job[t].err \in {"writeFile", "spawn"}

\* C24: a job run in which an exception was raised after the session was
\* created returns a result (nothing is thrown) with status "failed" and the
\* error text in stderr, and the destruction of its session has begun before
\* it returns.
C24_ExceptionsContained ==
  \A t \in Threads :
    RaisedAfterCreation(t) =>
      /\ job[t].jpc = "returned"
      /\ job[t].status = "failed"
      /\ job[t].stderr # <<>>
      /\ job[t].kind # "runStreamingSession" =>
           session[job[t].sid].state \in {"DESTROYING", "DESTROYED"}

\* memStr is a string of one or more digits followed by suffix
DigitsThen(s, suffix) ==
  /\ LeadingDigits(s) >= 1
  /\ SubSeq(s, LeadingDigits(s) + 1, Len(s)) = suffix

\* the number a string of digits at the start of s denotes
NumberOf(s) == parseInt(SubSeq(s, 1, LeadingDigits(s)))

\* C25 as stated: digits v followed by GB give v*1024, followed by MB or by
\* nothing give v, followed by KB give ceil(v/1024), and every other string
\* gives 2048.
C25_ParseMemoryAsStated ==
  memoryMb # NotParsed =>
    memoryMb =
      (CASE DigitsThen(memStr, <<"G", "B">>) -> NumberOf(memStr) * 1024
         [] DigitsThen(memStr, <<"M", "B">>) \/ DigitsThen(memStr, <<>>) -> NumberOf(memStr)
         [] DigitsThen(memStr, <<"K", "B">>) ->
              CHOOSE c \in 0..NumberOf(memStr) :
                c * 1024 >= NumberOf(memStr) /\ (c - 1) * 1024 < NumberOf(memStr)
         [] OTHER -> 2048)

\* C25: the suffix counts in any mix of upper and lower case: digits v
\* followed by GB give v*1024, by MB or by nothing v, by KB ceil(v/1024);
\* every other string gives 2048.
C25_ParseMemory ==
  memoryMb # NotParsed =>
    LET suffix == toUpperCase(SubSeq(memStr, LeadingDigits(memStr) + 1, Len(memStr)))
        v == NumberOf(memStr)
    IN memoryMb =
         (CASE LeadingDigits(memStr) = 0 -> 2048
            [] suffix = <<"G", "B">> -> v * 1024
            [] suffix \in {<<"M", "B">>, <<>>} -> v
            [] suffix = <<"K", "B">> ->
                 CHOOSE c \in 0..v : c * 1024 >= v /\ (c - 1) * 1024 < v
            [] OTHER -> 2048)

C25_Witness ==
  /\ memStr = <<"1", "0", "2", "5", "K", "b">>
  /\ memoryMb = 2

\* C26: the stdout and stderr executeWithGovernance returns for a command
\* hold together at most max_output_bytes.
C26_CapturedOutputBounded ==
  os.executed.done =>
    os.executed.stdout + os.executed.stderr <= gov.limits.max_output_bytes

\* the order of the session states
StateOrder == <<"INIT", "PREPARING", "EXECUTING", "COLLECTING", "DESTROYING", "DESTROYED">>

\* C27: while a run of runJob or runSessionLifecycle has no error pending,
\* every change of its session's state goes from one state of the order to
\* the next one, and no transition-mismatch warning has been logged for the
\* session.
C27_StatesInOrder ==
  [][\A s \in Sids, t \in Threads :
       ( /\ session'[s].alloc
         /\ session'[s].job_id = job'[t].job_id
         /\ job'[t].kind \in {"runJob", "runSessionLifecycle"}
         /\ job'[t].err = "none"
         /\ session'[s].state # session[s].state ) =>
         /\ \E i \in 1..(Len(StateOrder) - 1) :
              /\ session[s].state = StateOrder[i]
              /\ session'[s].state = StateOrder[i + 1]
         /\ ~session'[s].warned]_vars

\* C28: for every session of a manager, work_dir and output_dir exist
\* exactly when the session's state is PREPARING, EXECUTING or COLLECTING.
C28_DirsIffActiveState ==
  \A s \in Sids :
    (session[s].alloc /\ session[s].mgr = "api") =>
      ((<<s, "work">> \in dirs /\ <<s, "output">> \in dirs)
        <=> session[s].state \in {"PREPARING", "EXECUTING", "COLLECTING"})

\* C29: under every interleaving of calls on a shared manager whose
\* onStateChange callback does not throw, a session on which no mismatched
\* transition was made is in the registry exactly when createSession has
\* registered it and destroySession has not yet finished with it.
C29_RegistryExact ==
  \A s \in Sids :
    ( /\ callbacks # "throws"
      /\ session[s].alloc /\ session[s].mgr = "api" /\ ~session[s].warned ) =>
      (s \in active_sessions <=> session[s].state \notin {"INIT", "DESTROYED"})

\* C30: an inline-code invocation of the interpreter, python -c <code>, is
\* rejected by validateCommand.
C30_InlineCodeRejected ==
  LET trimmed == Trim(vcommand)
  IN ( /\ vresult # NoResult
       /\ Test(Cat(<<Bol, Str(<<"p", "y", "t", "h", "o", "n">>), Plus(ReS),
                     Str(<<"-", "c">>)>>), trimmed) ) =>
       ~vresult.allowed

Includes(s, text) ==
  \E i \in 1..(Len(s) - Len(text) + 1) : SubSeq(s, i, i + Len(text) - 1) = text

\* C32: the output of sanitizeCommand contains no ;, no backtick and no
\* "| sh".
C32_NoInjectedConstruct ==
  vsanitized.done =>
    /\ ~Includes(vsanitized.out, <<";">>)
    /\ ~Includes(vsanitized.out, <<BackTick>>)
    /\ ~Includes(vsanitized.out, <<"|", " ", "s", "h">>)

\* C33: a lifecycle operation that has failed on a session (the call threw,
\* or destroySession recorded a removal error) has moved the session to
\* ERROR.
C33_FailureMovesToError ==
  /\ \A t \in Threads :
       (call[t].st = "throw" /\ call[t].sid # 0 /\ session[call[t].sid].alloc) =>
         session[call[t].sid].state = "ERROR"
  /\ \A s \in Sids :
       (session[s].alloc /\ session[s].error) => session[s].state = "ERROR"

\* the caller t makes a new call of the manager method op in this step
Begins(t, op) ==
  /\ CanCall(t)
  /\ FirstFree(t)
  /\ started' = started + 1
  /\ call'[t].op = op

\* the state a lifecycle operation sets, and the state it expects
TargetOf(op) ==
  CASE op = "prepareSession" -> "PREPARING"
    [] op = "executeCommand" -> "EXECUTING"
    [] op = "collectArtifacts" -> "COLLECTING"
    [] op = "destroySession" -> "DESTROYING"

ExpectedBy(op) ==
  CASE op = "prepareSession" -> "PREPARING"
    [] op = "executeCommand" -> "PREPARING"
    [] op = "collectArtifacts" -> "EXECUTING"

\* C34 as stated: a call of prepareSession, executeCommand, collectArtifacts
\* or destroySession sets the session's state to the operation's target,
\* whatever the state was.
C34_TargetFromEveryState ==
  [][\A t \in Callers :
       \A op \in {"prepareSession", "executeCommand", "collectArtifacts", "destroySession"} :
         Begins(t, op) => session'[call'[t].sid].state = TargetOf(op)]_vars

\* C34: prepareSession, executeCommand and collectArtifacts set the state to
\* their target whatever it was, and the warning is logged exactly when the
\* state was not the expected one; destroySession sets DESTROYING without
\* any warning from every state but DESTROYED, where it changes nothing.
C34_Advisory ==
  [][\A t \in Callers :
       /\ \A op \in {"prepareSession", "executeCommand", "collectArtifacts"} :
            Begins(t, op) =>
              LET s == call'[t].sid
              IN /\ session'[s].state = TargetOf(op)
                 /\ session'[s].warned =
                      (session[s].warned \/ session[s].state # ExpectedBy(op))
       /\ Begins(t, "destroySession") =>
            LET s == call'[t].sid
            IN IF session[s].state = "DESTROYED"
               THEN session'[s] = session[s]
               ELSE /\ session'[s].state = "DESTROYING"
                    /\ session'[s].warned = session[s].warned]_vars

\* a mismatched transition has been applied: collectArtifacts on a DESTROYED
\* session
C34_Witness ==
  \E s \in Sids :
    /\ session[s].warned
    /\ session[s].state = "COLLECTING"
    /\ Len(notifications[s]) > 0
    /\ notifications[s][Len(notifications[s])] = <<"DESTROYED", "COLLECTING">>

\* C35: a call of prepareSession, executeCommand, collectArtifacts,
\* destroySession or destroySessionSafe that begins on a session in DESTROYED
\* leaves the session in DESTROYED.
C35_DestroyedIsTerminal ==
  [][\A t \in Callers :
       \A op \in {"prepareSession", "executeCommand", "collectArtifacts",
                  "destroySession", "destroySessionSafe"} :
         (Begins(t, op) /\ session[call'[t].sid].state = "DESTROYED") =>
           session'[call'[t].sid].state = "DESTROYED"]_vars

\* C36: a sampling tick that comes while the governor's sampling is stopped
\* (killProcess or stop() has cleared monitoring_interval and no
\* startGovernance has followed) appends no memory sample and runs no kill
\* command.
C36_NoTickAfterStop ==
  [][(GovTick /\ gov.monitoring_interval = 0) =>
       /\ gov'.memory_samples = gov.memory_samples
       /\ os'.kill_calls = os.kill_calls]_vars

\* C37: on a sampling tick of a governor that is not killed, when ps finds
\* no process of the group (the read of the process table fails), no sample
\* is appended and the timeout check still runs: past the deadline the
\* governor is killed with reason timeout, and otherwise killed is unchanged
\* and every interval timer stays set.
C37_PsFailureSwallowed ==
  [][( /\ GovTick
       /\ os.timers # {}
       /\ ~gov.killed
       /\ gov.process_group_id # "null"
       /\ os.group = <<>> ) =>
       /\ gov'.memory_samples = gov.memory_samples
       /\ IF os'.now - gov.start_time > gov.limits.timeout_ms
          THEN /\ gov'.killed
               /\ gov'.kill_reason.reason = "timeout"
          ELSE /\ gov'.killed = gov.killed
               /\ os'.timers = os.timers]_vars

\* a governor whose every tick failed to read the process table has been
\* killed by the timeout check
C37_Witness ==
  /\ gov.killed
  /\ gov.kill_reason.reason = "timeout"
  /\ gov.memory_samples = <<>>
  /\ os.kill_calls = 1
  /\ ~os.kill_found

\* C38: every memory sample a sampling tick appends is the total resident
\* memory, in MB, of all the processes of the governed group.
C38_SampleIsGroupTotal ==
  [][GovTick =>
       \A i \in (Len(gov.memory_samples) + 1)..Len(gov'.memory_samples) :
         gov'.memory_samples[i] = TotalKb(os.group) \div 1024]_vars

C40_EveryChangeNotified ==
  [][\A s \in Sids :
       (/\ session[s].alloc /\ HasCallback(s) /\ callbacks = "set"
        /\ session'[s].state # session[s].state)
         => notifications'[s]
              = Append(notifications[s], <<session[s].state, session'[s].state>>)]_vars

====
